---- MODULE Spec2Model ----
(***************************************************************************)
(* GlobaLingo real-time relay: the socket.io server (backend/src/server.js *)
(* and its later revision with the video call room handlers), the Message  *)
(* schema, the VideoCall client's handling of the room role events, the   *)
(* client's SocketService and the caller's side of its WebRTCService.      *)
(*                                                                         *)
(* Each action is one run-to-completion slice of a handler: a synchronous  *)
(* handler is one action, an async handler is one action per stretch       *)
(* between two awaits.  req is the request whose handler ran in the last   *)
(* step and emits the events that step emitted, in emission order.         *)
(***************************************************************************)
EXTENDS Integers, Sequences, FiniteSets, TLC

VARIABLES
    sock,                 \* connection id -> "new" | "open" | "closed"
    req,                  \* the request (or continuation) handled by the last step
    emits,                \* events emitted by the last step
    rooms,                \* io.sockets.adapter.rooms: meetingId -> member ids, insertion order
    videoUserName,        \* socket.videoUserName
    videoNativeLanguage,  \* socket.videoNativeLanguage
    shouldShowCallButton, \* VideoCall state of the client behind each connection
    otherPersonSocketId,  \* VideoCall state: the peer the call button calls
    activeUsers,          \* the activeUsers Map, as its entries in insertion order
    store,                \* the Message collection; a message's _id is its index
    task,                 \* connection id -> the async handler it has in flight
    now,                  \* the server clock (new Date(), Date.now)
    idA, idB,             \* two participant ids handed to the id derivation
    convSend, convHist,   \* the conversation id chat:message / chat:get-history derived
    reconnectAttempts,    \* SocketService.reconnectAttempts
    clientSockets,        \* every socket the SocketService created, in creation order
    current,              \* SocketService.socket: an index of clientSockets, 0 for null
    timers,               \* reconnect timers set and not yet fired
    attemptsSinceConnect, \* history: timers set since a socket of the service
                          \* last connected
    eventHandlers,        \* SocketService.eventHandlers: event -> wrapped handler
    wrapped,              \* the wrapped handlers on() has made so far
    webrtc,               \* WebRTCService: peerConnection, callId, remoteSocketId
    calls,                \* history: the calls startCall has given a callId
    iceLog                \* history: the local ICE candidates of the peer
                          \* connections, with where each was sent

vars == <<sock, req, emits, rooms, videoUserName, videoNativeLanguage,
          shouldShowCallButton, otherPersonSocketId,
          activeUsers, store, task, now, idA, idB, convSend, convHist,
          reconnectAttempts, clientSockets, current, timers,
          attemptsSinceConnect, eventHandlers, wrapped, webrtc, calls,
          iceLog>>

msgVars == <<activeUsers, store, task, now>>

deriveVars == <<idA, idB, convSend, convHist>>

handlerVars == <<eventHandlers, wrapped>>

rtcVars == <<webrtc, calls, iceLog>>

socketVars == <<reconnectAttempts, clientSockets, current, timers,
                attemptsSinceConnect, handlerVars>>

clientVars == <<socketVars, rtcVars>>

roomVars == <<rooms, videoUserName, videoNativeLanguage,
              shouldShowCallButton, otherPersonSocketId>>

serverVars == <<sock, req, emits, roomVars, msgVars, deriveVars>>

----------------------------------------------------------------------------
(* Value domains *)

\* socket.io connection ids; an id is never reused after its connection closed
Conns == {"s1", "s2", "s3"}

\* meeting ids a client may name (taken distinct from connection ids)
MeetingIds == {"m1"}

\* names of socket.io rooms: a meeting id, or the id of a socket
RoomIds == MeetingIds \cup Conns

\* a payload field the client left out
Undefined == "undefined"

Names == {"Ann", Undefined}

Locales == {"hi-IN", Undefined}

NoReq == [ev |-> "none"]

\* an id the payload left out (no string has a negative code unit)
NoId == <<-1>>

\* a fixed enumeration of the connections, for broadcasts
ConnOrder == <<"s1", "s2", "s3">>

Range(s) == {s[i] : i \in 1..Len(s)}

\* JavaScript x || d for string-valued x
OrDefault(x, d) == IF x = Undefined THEN d ELSE x

\* Set.delete / room leave: drop c from an insertion-ordered set
\* a sequence that keeps the element it was to lose
WithoutNothing(s, c) == s

RECURSIVE Without(_, _)
Without(s, c) ==
    IF s = <<>> THEN <<>>
    ELSE IF Head(s) = c THEN Without(Tail(s), c)
    ELSE <<Head(s)>> \o Without(Tail(s), c)

\* Set.add: insertion order, no duplicates
SetAdd(s, c) == IF c \in Range(s) THEN s ELSE Append(s, c)

\* Array.from(set).find(id => id !== self)
RECURSIVE FindOther(_, _)
FindOther(s, self) ==
    IF s = <<>> THEN Undefined
    ELSE IF Head(s) # self THEN Head(s)
    ELSE FindOther(Tail(s), self)

----------------------------------------------------------------------------
(* Presence: the activeUsers Map *)

\* activeUsers.get(socket.id) is defined
Registered(c) == \E i \in 1..Len(activeUsers) : activeUsers[i].socketId = c

\* activeUsers.set(socket.id, {...userData, socketId}): a key already in the
\* Map keeps its place, a new key goes last
MapSet(users, c, uid) ==
    IF \E i \in 1..Len(users) : users[i].socketId = c
    THEN [i \in 1..Len(users) |->
             IF users[i].socketId = c THEN [socketId |-> c, _id |-> uid]
             ELSE users[i]]
    ELSE Append(users, [socketId |-> c, _id |-> uid])

\* a delete that leaves the entry in the Map
MapDeleteNothing(users, c) == users

\* activeUsers.delete(socket.id)
MapDelete(users, c) == SelectSeq(users, LAMBDA u : u.socketId # c)

\* activeUsers.get(socket.id)._id
UserIdOf(c) ==
    LET hits == SelectSeq(activeUsers, LAMBDA u : u.socketId = c)
    IN  IF hits = <<>> THEN NoId ELSE hits[1]._id

\* io.emit(ev, ...): the sender is not left out
BroadcastToAll(c, ev, uid) ==
    LET all == SelectSeq(ConnOrder, LAMBDA d : sock[d] = "open")
    IN  [i \in 1..Len(all) |->
            [to |-> all[i], ev |-> ev, userId |-> uid, socketId |-> c]]

\* socket.broadcast.emit(ev, ...): one event to every other connected socket
Broadcast(c, ev, uid) ==
    LET others == SelectSeq(ConnOrder, LAMBDA d : d # c /\ sock[d] = "open")
    IN  [i \in 1..Len(others) |->
            [to |-> others[i], ev |-> ev, userId |-> uid, socketId |-> c]]

\* a relay that reaches only sockets found in activeUsers
IoToRegistered(target, event) ==
    IF target \in Conns /\ sock[target] = "open" /\ Registered(target)
    THEN <<[event EXCEPT !.to = target]>>
    ELSE <<>>

\* io.to(id).emit(...): one event to every socket in the room named id.  A
\* socket id names the room its socket is put in on connection, which
\* socket.join(meetingId) lets any other socket enter; a room nobody is in
\* receives nothing
IoTo(target, event) ==
    IF target \in RoomIds
    THEN [i \in 1..Len(rooms[target]) |->
             [event EXCEPT !.to = rooms[target][i]]]
    ELSE <<>>

----------------------------------------------------------------------------
(* Connection life cycle *)

\* io.on("connection"): socket.io has put the socket in the room named by
\* its id; the server greets the socket with its id
Connect(c) ==
    /\ sock[c] = "new"
    /\ sock' = [sock EXCEPT ![c] = "open"]
    /\ req' = [ev |-> "connection", conn |-> c]
    /\ emits' = <<[to |-> c, ev |-> "me", id |-> c]>>
    /\ rooms' = [rooms EXCEPT ![c] = SetAdd(rooms[c], c)]
    /\ UNCHANGED <<videoUserName, videoNativeLanguage,
                   shouldShowCallButton, otherPersonSocketId,
                   msgVars, deriveVars, clientVars>>

\* socket.on("disconnect"): offline is broadcast only for a registered
\* socket.  socket.io has already taken the socket out of every room;
\* socket.roomId is never assigned, so no user-left is sent.  A handler the
\* connection has in flight runs on.
Disconnect(c) ==
    /\ sock[c] = "open"
    /\ sock' = [sock EXCEPT ![c] = "closed"]
    /\ rooms' = [m \in RoomIds |-> Without(rooms[m], c)]
    /\ req' = [ev |-> "disconnect", conn |-> c]
    /\ emits' = IF Registered(c)
                THEN Broadcast(c, "user:offline", UserIdOf(c))
                ELSE <<>>
    /\ activeUsers' = MapDelete(activeUsers, c)
    /\ UNCHANGED <<videoUserName, videoNativeLanguage,
                   shouldShowCallButton, otherPersonSocketId,
                   store, task, now, deriveVars, clientVars>>

----------------------------------------------------------------------------
(* Room negotiation: socket.on("joinVideoCallRoom") and the client's       *)
(* roomRole listener                                                        *)

RoomRoleWaiter(c) ==
    [to |-> c, ev |-> "roomRole", role |-> "waiter"]

\* a caller role that names the joiner itself as the peer
RoomRoleCallerSelf(c, first) ==
    [to |-> c, ev |-> "roomRole", role |-> "caller",
     otherSocketId |-> c,
     otherUserName |-> OrDefault(videoUserName[c], "Other participant"),
     otherUserLanguage |-> OrDefault(videoNativeLanguage[c], "en-US")]

RoomRoleCaller(c, first) ==
    [to |-> c, ev |-> "roomRole", role |-> "caller",
     otherSocketId |-> first,
     otherUserName |-> OrDefault(videoUserName[first], "Other participant"),
     otherUserLanguage |-> OrDefault(videoNativeLanguage[first], "en-US")]

ExpectingCallFrom(first, c, userName, nativeLanguage) ==
    [to |-> first, ev |-> "expectingCallFrom", socketId |-> c,
     userName |-> userName,
     userLanguage |-> OrDefault(nativeLanguage, "en-US")]

\* socket.join(meetingId)
RoomAfterJoin(room, c) == SetAdd(room, c)

\* the branch taken on the room size after the join
RoomBranch(roomSize) ==
    IF roomSize = 1 THEN "first"
    ELSE IF roomSize = 2 THEN "second"
    ELSE "none"

JoinVideoCallRoom(c, m, userName, nativeLanguage) ==
    LET room == RoomAfterJoin(rooms[m], c)
        roomSize == Len(room)
        firstPersonSocket == FindOther(room, c)
    IN  /\ sock[c] = "open"
        /\ rooms' = [rooms EXCEPT ![m] = room]
        /\ req' = [ev |-> "joinVideoCallRoom", conn |-> c, meetingId |-> m,
                   userName |-> userName, nativeLanguage |-> nativeLanguage]
        /\ IF RoomBranch(roomSize) = "first" THEN
               /\ videoUserName' = [videoUserName EXCEPT ![c] = userName]
               /\ videoNativeLanguage' =
                      [videoNativeLanguage EXCEPT ![c] = nativeLanguage]
               /\ emits' = <<RoomRoleWaiter(c)>>
               /\ shouldShowCallButton' =
                      [shouldShowCallButton EXCEPT ![c] = FALSE]
               /\ otherPersonSocketId' = otherPersonSocketId
           ELSE IF RoomBranch(roomSize) = "second" THEN
               /\ videoUserName' = [videoUserName EXCEPT ![c] = userName]
               /\ videoNativeLanguage' =
                      [videoNativeLanguage EXCEPT ![c] = nativeLanguage]
               /\ emits' = <<RoomRoleCaller(c, firstPersonSocket),
                             ExpectingCallFrom(firstPersonSocket, c,
                                               userName, nativeLanguage)>>
               /\ shouldShowCallButton' =
                      [shouldShowCallButton EXCEPT ![c] = TRUE]
               /\ otherPersonSocketId' =
                      [otherPersonSocketId EXCEPT ![c] = firstPersonSocket]
           ELSE
               /\ emits' = <<>>
               /\ UNCHANGED <<videoUserName, videoNativeLanguage,
                              shouldShowCallButton, otherPersonSocketId>>
        /\ UNCHANGED <<sock, msgVars, deriveVars, clientVars>>

----------------------------------------------------------------------------
(* Conversation id derivation: [x, y].sort().join("-") *)

\* the code unit of "-"
Dash == 45

\* code units ids are written with ("0", "1")
IdChars == {48, 49}

\* longest id handed to the derivation
MaxIdLen == 2

IdStrings ==
    UNION {[1..n -> IdChars] : n \in 0..MaxIdLen} \cup {NoId}

\* s sorts before t in UTF-16 code unit order
RECURSIVE LexLess(_, _)
LexLess(s, t) ==
    IF t = <<>> THEN FALSE
    ELSE IF s = <<>> THEN TRUE
    ELSE IF Head(s) # Head(t) THEN Head(s) < Head(t)
    ELSE LexLess(Tail(s), Tail(t))

\* Array.prototype.sort on two elements: undefined goes last, the others
\* are ordered by their strings, equal ones keep their order
SortPair(x, y) ==
    IF x = NoId THEN <<y, x>>
    ELSE IF y = NoId THEN <<x, y>>
    ELSE IF LexLess(y, x) THEN <<y, x>>
    ELSE <<x, y>>

\* Array.prototype.join renders undefined as the empty string
JoinStr(x) == IF x = NoId THEN <<>> ELSE x

\* the two ids joined as given, without the sort
DeriveUnsorted(x, y) == JoinStr(x) \o <<Dash>> \o JoinStr(y)

Derive(x, y) ==
    LET s == SortPair(x, y)
    IN  JoinStr(s[1]) \o <<Dash>> \o JoinStr(s[2])

\* no conversation id derived yet
Unset == <<-2>>

\* chat:message from idA to idB: [senderId, targetUserId].sort().join("-")
DeriveOnSend ==
    /\ convSend' = Derive(idA, idB)
    /\ UNCHANGED <<idA, idB, convHist>>
    /\ UNCHANGED <<sock, req, emits, roomVars, msgVars, clientVars>>

\* chat:get-history by idB about idA: [userId, targetUserId].sort().join("-")
DeriveOnHistory ==
    /\ convHist' = Derive(idB, idA)
    /\ UNCHANGED <<idA, idB, convSend>>
    /\ UNCHANGED <<sock, req, emits, roomVars, msgVars, clientVars>>

----------------------------------------------------------------------------
(* Messages: the Message schema and the chat handlers of server.js *)

\* connections that take part in the chat
MsgConns == {"s1", "s2"}

\* the connection that reads histories
HistConns == {"s1"}

\* user ids ("1", "2")
UserIds == {<<49>>, <<50>>}

\* the user signed in on the client behind each connection
UserOf == [c \in MsgConns |-> IF c = "s1" THEN <<49>> ELSE <<50>>]

Emojis == {"+1"}

\* message texts a client sends; "" fails the schema's required: true
SendTexts == {"hi", ""}

\* texts a client edits a message to
EditTexts == {"yo", ""}

Placeholder == "This message was deleted"

\* default: null of a Date field
NullDate == -1

\* most messages created in a run
MaxMsgs == 2

\* most messages stored where only one connection sends and reads
MaxHistMsgs == 3

\* last instant of the server clock
MaxClock == 1

\* chat:get-history without a limit
NoLimit == -1

DefaultLimit == 50

\* largest limit a client names
MaxLimit == 1

Limits == (0..MaxLimit) \cup {NoLimit}

Idle == [pc |-> "idle"]

\* an error addressed to another socket than the one that asked
ErrorToOther(c, text) ==
    [to |-> CHOOSE d \in Conns : d # c, ev |-> "error", message |-> text]

ErrorTo(c, text) == [to |-> c, ev |-> "error", message |-> text]

\* activeUsers.find(([_, user]) => user._id.toString() === id.toString()):
\* an entry without _id met before a match throws
RECURSIVE FindByToString(_, _)
FindByToString(users, id) ==
    IF users = <<>> THEN [throws |-> FALSE, socketId |-> Undefined]
    ELSE IF Head(users)._id = NoId
         THEN [throws |-> TRUE, socketId |-> Undefined]
    ELSE IF Head(users)._id = id
         THEN [throws |-> FALSE, socketId |-> Head(users).socketId]
    ELSE FindByToString(Tail(users), id)

\* activeUsers.find(([_, user]) => user._id === id.toString())
RECURSIVE FindByStrictId(_, _)
FindByStrictId(users, id) ==
    IF users = <<>> THEN Undefined
    ELSE IF Head(users)._id = id THEN Head(users).socketId
    ELSE FindByStrictId(Tail(users), id)

\* file metadata attached to a message, or none
FileUrls == {"data:image/png", Undefined}

\* a schema that does not require text
ValidDraftWithoutText(senderId, receiverId, text) ==
    /\ senderId # NoId
    /\ receiverId # NoId

\* the schema's required fields of a new message
ValidDraft(senderId, receiverId, text) ==
    /\ senderId # NoId
    /\ receiverId # NoId
    /\ text # ""

\* Message.create(messageData) with the schema defaults
NewMessage(senderId, receiverId, text, fileUrl) ==
    [senderId |-> senderId,
     receiverId |-> receiverId,
     text |-> text,
     fileUrl |-> fileUrl,
     conversationId |-> Derive(senderId, receiverId),
     reactions |-> <<>>,
     isEdited |-> FALSE, editedAt |-> NullDate,
     isDeleted |-> FALSE, deletedAt |-> NullDate,
     createdAt |-> now, updatedAt |-> now]

\* socket.on("user:join"): userData null still leaves an entry before
\* userData.fullName throws
UserJoin(c, given, uid) ==
    /\ sock[c] = "open"
    /\ activeUsers' = MapSet(activeUsers, c, uid)
    /\ req' = [ev |-> "user:join", conn |-> c, given |-> given, userId |-> uid]
    /\ emits' = IF given THEN Broadcast(c, "user:online", uid)
                ELSE <<ErrorTo(c, "Failed to join")>>
    /\ UNCHANGED <<sock, roomVars, store, task, now, deriveVars, clientVars>>

\* socket.on("chat:message") up to await Message.create
ChatMessage(c, targetUserId, message, senderId, fileUrl) ==
    /\ sock[c] = "open"
    /\ task[c] = Idle
    /\ req' = [ev |-> "chat:message", stage |-> "create", conn |-> c,
               targetUserId |-> targetUserId, message |-> message,
               senderId |-> senderId, fileUrl |-> fileUrl]
    /\ IF ValidDraft(senderId, targetUserId, message)
       THEN /\ store' = Append(store,
                               NewMessage(senderId, targetUserId, message,
                                           fileUrl))
            /\ task' = [task EXCEPT ![c] =
                           [pc |-> "deliver", ev |-> "chat:message",
                            id |-> Len(store) + 1,
                            targetUserId |-> targetUserId]]
            /\ emits' = <<>>
       ELSE /\ emits' = <<ErrorTo(c, "Failed to send message")>>
            /\ UNCHANGED <<store, task>>
    /\ UNCHANGED <<sock, roomVars, activeUsers, now, deriveVars, clientVars>>

\* chat:message after the awaits: target lookup, delivery, confirmation
ChatMessageDeliver(c) ==
    /\ task[c].pc = "deliver"
    /\ LET t == task[c]
           targetSocket == FindByToString(activeUsers, t.targetUserId)
           payload == [_id |-> t.id,
                       senderId |-> store[t.id].senderId,
                       conversationId |-> store[t.id].conversationId]
       IN  /\ req' = [ev |-> "chat:message", stage |-> "deliver", conn |-> c,
                      id |-> t.id, targetUserId |-> t.targetUserId]
           /\ emits' =
                 IF targetSocket.throws
                 THEN <<ErrorTo(c, "Failed to send message")>>
                 ELSE (IF targetSocket.socketId # Undefined
                       THEN IoTo(targetSocket.socketId,
                                 [to |-> Undefined, ev |-> "chat:message",
                                  data |-> payload])
                       ELSE <<>>)
                      \o <<[to |-> c, ev |-> "chat:message:sent",
                            data |-> payload]>>
    /\ task' = [task EXCEPT ![c] = Idle]
    /\ UNCHANGED <<sock, roomVars, activeUsers, store, now, deriveVars, clientVars>>

----------------------------------------------------------------------------
(* History *)

Min(x, y) == IF x <= y THEN x ELSE y

\* Message.find({ conversationId })
InConversation(conv) ==
    {i \in 1..Len(store) : store[i].conversationId = conv}

\* .sort({ createdAt: -1 }): every order of the ids with createdAt
\* non-increasing (messages created in the same instant come in any order)
RECURSIVE SortedNewestFirst(_)
SortedNewestFirst(ids) ==
    IF ids = {} THEN {<<>>}
    ELSE LET newest == {i \in ids :
                           \A j \in ids :
                               store[i].createdAt >= store[j].createdAt}
         IN  UNION {{<<i>> \o rest : rest \in SortedNewestFirst(ids \ {i})} :
                       i \in newest}

\* const { limit = 50 } = data
EffectiveLimit(limit) == IF limit = NoLimit THEN DefaultLimit ELSE limit

\* .limit(n): 0 is no limit
Limit(seq, n) ==
    IF n = 0 THEN seq ELSE SubSeq(seq, 1, Min(n, Len(seq)))

\* the page left newest first
ReverseSkipped(seq) == seq

\* messages.reverse()
Reverse(seq) == [i \in 1..Len(seq) |-> seq[Len(seq) + 1 - i]]

\* the entry of chat:history built from a stored message
HistoryEntry(i) ==
    [_id |-> i,
     message |-> store[i].text,
     senderId |-> store[i].senderId,
     timestamp |-> store[i].createdAt,
     conversationId |-> store[i].conversationId,
     reactions |-> store[i].reactions,
     isEdited |-> store[i].isEdited,
     isDeleted |-> store[i].isDeleted]

\* socket.on("chat:get-history")
GetHistory(c, userId, targetUserId, limit) ==
    /\ sock[c] = "open"
    /\ LET conversationId == Derive(userId, targetUserId)
       IN  \E sorted \in SortedNewestFirst(InConversation(conversationId)) :
               LET messages == Reverse(Limit(sorted, EffectiveLimit(limit)))
               IN  emits' = <<[to |-> c, ev |-> "chat:history",
                               conversationId |-> conversationId,
                               messages |->
                                   [i \in 1..Len(messages) |->
                                       HistoryEntry(messages[i])]]>>
    /\ req' = [ev |-> "chat:get-history", conn |-> c, userId |-> userId,
               targetUserId |-> targetUserId, limit |-> limit]
    /\ UNCHANGED <<sock, roomVars, msgVars, deriveVars, clientVars>>

----------------------------------------------------------------------------
(* Reactions *)

\* message.reactions.find(r => r.userId.toString() === userId && r.emoji === emoji)
HasReaction(reactions, userId, emoji) ==
    \E i \in 1..Len(reactions) :
        reactions[i].userId = userId /\ reactions[i].emoji = emoji

\* a toggle that never finds the pair
ReactToggleAddOnly(reactions, userId, emoji) ==
    [op |-> "push", action |-> "added",
     reactions |-> Append(reactions, [userId |-> userId, emoji |-> emoji])]

\* the toggle on the document read: filter the pair out if it is there,
\* push it otherwise (of a reaction only the userId and emoji the handler
\* reads are kept)
ReactToggle(reactions, userId, emoji) ==
    IF HasReaction(reactions, userId, emoji)
    THEN [op |-> "set", action |-> "removed",
          reactions |-> SelectSeq(reactions,
              LAMBDA r : ~(r.userId = userId /\ r.emoji = emoji))]
    ELSE [op |-> "push", action |-> "added",
          reactions |-> Append(reactions,
              [userId |-> userId, emoji |-> emoji])]

\* the (userId, emoji) pairs of a reactions array
Pairs(reactions) ==
    {<<reactions[i].userId, reactions[i].emoji>> : i \in 1..Len(reactions)}

\* a write to the reactions of message id outdates the version every other
\* handler read for it
Outdate(tasks, c, id) ==
    [d \in Conns |->
        IF d # c /\ tasks[d].pc = "save" /\ tasks[d].ev = "message:react"
                 /\ tasks[d].id = id
        THEN [tasks[d] EXCEPT !.stale = TRUE]
        ELSE tasks[d]]

\* socket.on("message:react") up to await message.save()
React(c, messageId, emoji, userId) ==
    /\ sock[c] = "open"
    /\ task[c] = Idle
    /\ req' = [ev |-> "message:react", stage |-> "find", conn |-> c,
               messageId |-> messageId, emoji |-> emoji, userId |-> userId]
    /\ IF messageId > Len(store)
       THEN /\ emits' = <<ErrorTo(c, "Message not found")>>
            /\ task' = task
       ELSE LET toggled == ReactToggle(store[messageId].reactions,
                                        userId, emoji)
            IN  /\ emits' = <<>>
                /\ task' = [task EXCEPT ![c] =
                               [pc |-> "save", ev |-> "message:react",
                                id |-> messageId, userId |-> userId,
                                emoji |-> emoji, op |-> toggled.op,
                                action |-> toggled.action,
                                reactions |-> toggled.reactions,
                                stale |-> FALSE]]
    /\ UNCHANGED <<sock, roomVars, activeUsers, store, now, deriveVars, clientVars>>

\* what message.save() writes: a push is appended to the stored array; an
\* assigned array replaces it
SavedReactions(stored, t) ==
    IF t.op = "push"
    THEN Append(stored, t.reactions[Len(t.reactions)])
    ELSE t.reactions

\* await message.save() of message:react: the assigned array is written
\* only if the document version is the one the handler read
ReactSave(c) ==
    /\ task[c].pc = "save"
    /\ task[c].ev = "message:react"
    /\ LET t == task[c]
       IN  /\ req' = [ev |-> "message:react", stage |-> "save", conn |-> c,
                      messageId |-> t.id, emoji |-> t.emoji,
                      userId |-> t.userId]
           /\ IF t.op = "set" /\ t.stale
              THEN /\ emits' = <<ErrorTo(c, "Failed to add reaction")>>
                   /\ task' = [task EXCEPT ![c] = Idle]
                   /\ store' = store
              ELSE /\ emits' = <<>>
                   /\ store' = [store EXCEPT ![t.id].reactions =
                                   SavedReactions(@, t),
                                                ![t.id].updatedAt = now]
                   /\ task' = [Outdate(task, c, t.id) EXCEPT ![c] =
                                   [t EXCEPT !.pc = "bcast"]]
    /\ UNCHANGED <<sock, roomVars, activeUsers, now, deriveVars, clientVars>>

\* a broadcast that forgets the sender
ToReceiverOnly(id, event) ==
    LET targetSocket == FindByStrictId(activeUsers, store[id].receiverId)
    IN  IF targetSocket # Undefined
        THEN IoTo(targetSocket, event) ELSE <<>>

\* the events a mutation handler sends to the two participants
ToParticipants(id, event) ==
    LET targetSocket == FindByStrictId(activeUsers, store[id].receiverId)
        senderSocket == FindByStrictId(activeUsers, store[id].senderId)
    IN  (IF targetSocket # Undefined
         THEN IoTo(targetSocket, event) ELSE <<>>)
        \o
        (IF senderSocket # Undefined
         THEN IoTo(senderSocket, event) ELSE <<>>)

\* message:react after the save: broadcast to both users
ReactBroadcast(c) ==
    /\ task[c].pc = "bcast"
    /\ task[c].ev = "message:react"
    /\ LET t == task[c]
       IN  /\ req' = [ev |-> "message:react", stage |-> "bcast", conn |-> c,
                      messageId |-> t.id, emoji |-> t.emoji,
                      userId |-> t.userId]
           /\ emits' = ToParticipants(t.id,
                  [to |-> Undefined, ev |-> "message:reaction",
                   messageId |-> t.id, reactions |-> t.reactions,
                   userId |-> t.userId, emoji |-> t.emoji,
                   action |-> t.action])
    /\ task' = [task EXCEPT ![c] = Idle]
    /\ UNCHANGED <<sock, roomVars, activeUsers, store, now, deriveVars, clientVars>>

----------------------------------------------------------------------------
(* Edit and delete *)

\* no ownership check
NotSenderSkipped(id, userId) == FALSE

\* message.senderId.toString() !== userId
NotSender(id, userId) == store[id].senderId # userId

\* socket.on("message:edit") up to await message.save()
Edit(c, messageId, newText, userId) ==
    /\ sock[c] = "open"
    /\ task[c] = Idle
    /\ req' = [ev |-> "message:edit", stage |-> "find", conn |-> c,
               messageId |-> messageId, newText |-> newText,
               userId |-> userId]
    /\ IF messageId > Len(store)
       THEN /\ emits' = <<ErrorTo(c, "Message not found")>>
            /\ task' = task
       ELSE IF NotSender(messageId, userId)
       THEN /\ emits' = <<ErrorTo(c, "You can only edit your own messages")>>
            /\ task' = task
       ELSE /\ emits' = <<>>
            /\ task' = [task EXCEPT ![c] =
                           [pc |-> "save", ev |-> "message:edit",
                            id |-> messageId, userId |-> userId,
                            newText |-> newText, editedAt |-> now]]
    /\ UNCHANGED <<sock, roomVars, activeUsers, store, now, deriveVars, clientVars>>

\* an edit that stamps the message as created anew
EditedRestamped(m, t) ==
    [m EXCEPT !.text = t.newText, !.isEdited = TRUE, !.editedAt = t.editedAt,
              !.updatedAt = now, !.createdAt = now]

\* the document message:edit saves
Edited(m, t) ==
    [m EXCEPT !.text = t.newText, !.isEdited = TRUE, !.editedAt = t.editedAt,
              !.updatedAt = now]

\* await message.save() of message:edit: an empty text fails validation
EditSave(c) ==
    /\ task[c].pc = "save"
    /\ task[c].ev = "message:edit"
    /\ LET t == task[c]
       IN  /\ req' = [ev |-> "message:edit", stage |-> "save", conn |-> c,
                      messageId |-> t.id, newText |-> t.newText,
                      userId |-> t.userId]
           /\ IF t.newText = ""
              THEN /\ emits' = <<ErrorTo(c, "Failed to edit message")>>
                   /\ task' = [task EXCEPT ![c] = Idle]
                   /\ store' = store
              ELSE /\ emits' = <<>>
                   /\ store' = [store EXCEPT ![t.id] = Edited(@, t)]
                   /\ task' = [task EXCEPT ![c] = [t EXCEPT !.pc = "bcast"]]
    /\ UNCHANGED <<sock, roomVars, activeUsers, now, deriveVars, clientVars>>

\* message:edit after the save: broadcast to both users
EditBroadcast(c) ==
    /\ task[c].pc = "bcast"
    /\ task[c].ev = "message:edit"
    /\ LET t == task[c]
       IN  /\ req' = [ev |-> "message:edit", stage |-> "bcast", conn |-> c,
                      messageId |-> t.id, newText |-> t.newText,
                      userId |-> t.userId]
           /\ emits' = ToParticipants(t.id,
                  [to |-> Undefined, ev |-> "message:edited",
                   messageId |-> t.id, newText |-> t.newText,
                   editedAt |-> t.editedAt, userId |-> t.userId])
    /\ task' = [task EXCEPT ![c] = Idle]
    /\ UNCHANGED <<sock, roomVars, activeUsers, store, now, deriveVars, clientVars>>

\* socket.on("message:delete") up to await message.save()
Delete(c, messageId, userId) ==
    /\ sock[c] = "open"
    /\ task[c] = Idle
    /\ req' = [ev |-> "message:delete", stage |-> "find", conn |-> c,
               messageId |-> messageId, userId |-> userId]
    /\ IF messageId > Len(store)
       THEN /\ emits' = <<ErrorTo(c, "Message not found")>>
            /\ task' = task
       ELSE IF NotSender(messageId, userId)
       THEN /\ emits' =
                   <<ErrorTo(c, "You can only delete your own messages")>>
            /\ task' = task
       ELSE /\ emits' = <<>>
            /\ task' = [task EXCEPT ![c] =
                           [pc |-> "save", ev |-> "message:delete",
                            id |-> messageId, userId |-> userId,
                            deletedAt |-> now]]
    /\ UNCHANGED <<sock, roomVars, activeUsers, store, now, deriveVars, clientVars>>

\* a delete that leaves the text in place
TombstonedKeepsText(m, t) ==
    [m EXCEPT !.isDeleted = TRUE, !.deletedAt = t.deletedAt,
              !.updatedAt = now]

\* the document message:delete saves
Tombstoned(m, t) ==
    [m EXCEPT !.text = Placeholder, !.isDeleted = TRUE,
              !.deletedAt = t.deletedAt, !.updatedAt = now]

\* await message.save() of message:delete
DeleteSave(c) ==
    /\ task[c].pc = "save"
    /\ task[c].ev = "message:delete"
    /\ LET t == task[c]
       IN  /\ req' = [ev |-> "message:delete", stage |-> "save", conn |-> c,
                      messageId |-> t.id, userId |-> t.userId]
           /\ emits' = <<>>
           /\ store' = [store EXCEPT ![t.id] = Tombstoned(@, t)]
           /\ task' = [task EXCEPT ![c] = [t EXCEPT !.pc = "bcast"]]
    /\ UNCHANGED <<sock, roomVars, activeUsers, now, deriveVars, clientVars>>

\* message:delete after the save: broadcast to both users
DeleteBroadcast(c) ==
    /\ task[c].pc = "bcast"
    /\ task[c].ev = "message:delete"
    /\ LET t == task[c]
       IN  /\ req' = [ev |-> "message:delete", stage |-> "bcast", conn |-> c,
                      messageId |-> t.id, userId |-> t.userId]
           /\ emits' = ToParticipants(t.id,
                  [to |-> Undefined, ev |-> "message:deleted",
                   messageId |-> t.id, deletedAt |-> t.deletedAt,
                   userId |-> t.userId])
    /\ task' = [task EXCEPT ![c] = Idle]
    /\ UNCHANGED <<sock, roomVars, activeUsers, store, now, deriveVars, clientVars>>

\* time passes on the server clock
Tick ==
    /\ now < MaxClock
    /\ now' = now + 1
    /\ req' = [ev |-> "tick"]
    /\ emits' = <<>>
    /\ UNCHANGED <<sock, roomVars, activeUsers, store, task, deriveVars, clientVars>>

----------------------------------------------------------------------------
(* Call signalling: the webrtc:* and call:end relays of server.js and the  *)
(* callUser / answerCall / callEnded relays of its later revision          *)

\* an offer, answer, candidate or signal; the server never looks inside
Payloads == {"sdp", Undefined}

CallIds == {"k1", Undefined}

\* what a client sends along: a complete signal, or one with nothing in it
Signals == {[payload |-> "sdp", callId |-> "k1"],
            [payload |-> Undefined, callId |-> Undefined]}

\* socket.broadcast.emit(ev) without a payload
BroadcastBare(c, ev) ==
    LET others == SelectSeq(ConnOrder, LAMBDA d : d # c /\ sock[d] = "open")
    IN  [i \in 1..Len(others) |-> [to |-> others[i], ev |-> ev]]

\* socket.on("webrtc:offer"); given is FALSE when the client sent no
\* payload, so that the destructuring throws
WebrtcOffer(c, given, targetUserId, offer, callId) ==
    /\ sock[c] = "open"
    /\ req' = [ev |-> "webrtc:offer", conn |-> c, given |-> given,
               targetUserId |-> targetUserId, offer |-> offer,
               callId |-> callId]
    /\ LET targetSocket == FindByToString(activeUsers, targetUserId)
       IN  emits' =
               IF ~given \/ targetSocket.throws
               THEN <<ErrorTo(c, "Failed to send call offer")>>
               ELSE IoTo(targetSocket.socketId,
                         [to |-> Undefined, ev |-> "webrtc:offer",
                          offer |-> offer, callId |-> callId,
                          fromUserId |-> UserIdOf(c), fromSocketId |-> c])
    /\ UNCHANGED <<sock, roomVars, msgVars, deriveVars, clientVars>>

\* socket.on("webrtc:answer")
WebrtcAnswer(c, given, targetSocketId, answer, callId) ==
    /\ sock[c] = "open"
    /\ req' = [ev |-> "webrtc:answer", conn |-> c, given |-> given,
               targetSocketId |-> targetSocketId, answer |-> answer,
               callId |-> callId]
    /\ emits' = IF ~given
                THEN <<ErrorTo(c, "Failed to send call answer")>>
                ELSE IoTo(targetSocketId,
                          [to |-> Undefined, ev |-> "webrtc:answer",
                           answer |-> answer, callId |-> callId,
                           fromSocketId |-> c])
    /\ UNCHANGED <<sock, roomVars, msgVars, deriveVars, clientVars>>

\* socket.on("webrtc:ice-candidate"): the catch only logs
WebrtcIceCandidate(c, given, targetSocketId, candidate, callId) ==
    /\ sock[c] = "open"
    /\ req' = [ev |-> "webrtc:ice-candidate", conn |-> c, given |-> given,
               targetSocketId |-> targetSocketId, candidate |-> candidate,
               callId |-> callId]
    /\ emits' = IF ~given
                THEN <<>>
                ELSE IoTo(targetSocketId,
                          [to |-> Undefined, ev |-> "webrtc:ice-candidate",
                           candidate |-> candidate, callId |-> callId,
                           fromSocketId |-> c])
    /\ UNCHANGED <<sock, roomVars, msgVars, deriveVars, clientVars>>

\* socket.on("call:end"): the catch only logs
CallEnd(c, given, targetSocketId, callId) ==
    /\ sock[c] = "open"
    /\ req' = [ev |-> "call:end", conn |-> c, given |-> given,
               targetSocketId |-> targetSocketId, callId |-> callId]
    /\ emits' = IF ~given
                THEN <<>>
                ELSE IoTo(targetSocketId,
                          [to |-> Undefined, ev |-> "call:ended",
                           callId |-> callId, endedBy |-> c])
    /\ UNCHANGED <<sock, roomVars, msgVars, deriveVars, clientVars>>

\* socket.on("callUser"): the catch only logs
CallUser(c, given, userToCall, signalData, from, name) ==
    /\ sock[c] = "open"
    /\ req' = [ev |-> "callUser", conn |-> c, given |-> given,
               userToCall |-> userToCall, signalData |-> signalData,
               from |-> from, name |-> name]
    /\ emits' = IF ~given
                THEN <<>>
                ELSE IoTo(userToCall,
                          [to |-> Undefined, ev |-> "callUser",
                           signal |-> signalData, from |-> from,
                           name |-> name])
    /\ UNCHANGED <<sock, roomVars, msgVars, deriveVars, clientVars>>

\* socket.on("answerCall"): the catch only logs
AnswerCall(c, given, to, signal) ==
    /\ sock[c] = "open"
    /\ req' = [ev |-> "answerCall", conn |-> c, given |-> given,
               to |-> to, signal |-> signal]
    /\ emits' = IF ~given
                THEN <<>>
                ELSE IoTo(to, [to |-> Undefined, ev |-> "callAccepted",
                               signal |-> signal])
    /\ UNCHANGED <<sock, roomVars, msgVars, deriveVars, clientVars>>

\* socket.on("callEnded"): takes no payload and names no target
CallEnded(c) ==
    /\ sock[c] = "open"
    /\ req' = [ev |-> "callEnded", conn |-> c]
    /\ emits' = BroadcastBare(c, "callEnded")
    /\ UNCHANGED <<sock, roomVars, msgVars, deriveVars, clientVars>>

----------------------------------------------------------------------------
(* A request without a payload *)

\* the chat and message handlers, with the message their catch sends
FailureMessage ==
    [e \in {"chat:message", "chat:get-history", "message:react",
            "message:edit", "message:delete"} |->
        CASE e = "chat:message" -> "Failed to send message"
          [] e = "chat:get-history" -> "Failed to load chat history"
          [] e = "message:react" -> "Failed to add reaction"
          [] e = "message:edit" -> "Failed to edit message"
          [] e = "message:delete" -> "Failed to delete message"]

\* one of these handlers called with data undefined: destructuring data,
\* its first statement, throws before anything is read or stored
NoPayload(c, ev) ==
    /\ sock[c] = "open"
    /\ task[c] = Idle
    /\ req' = [ev |-> ev, stage |-> "find", conn |-> c, given |-> FALSE]
    /\ emits' = <<ErrorTo(c, FailureMessage[ev])>>
    /\ UNCHANGED <<sock, roomVars, msgVars, deriveVars, clientVars>>

----------------------------------------------------------------------------
(* The client's SocketService: connect, the reconnection it does itself   *)
(* after a drop by the server, and disconnect                              *)

\* this.maxReconnectAttempts
MaxReconnectAttempts == 5

BackoffBase == 2

MsPerSecond == 1000

\* most sockets the service creates in a run
MaxSockets == 4

RECURSIVE Pow(_, _)
Pow(b, n) == IF n = 0 THEN 1 ELSE b * Pow(b, n - 1)

\* Math.pow(2, this.reconnectAttempts) * 1000
Backoff(n) == Pow(BackoffBase, n) * MsPerSecond

\* events the application listens to through the service
Events == {"chat:message"}

\* the events the service itself listens to on every socket
ServiceEvents == {"connect", "disconnect"}

\* on() calls in a run
MaxHandlers == 2

NoHandler == 0

\* this.eventHandlers.forEach((handler, event) => ...): the entries of the Map
StoredHandlers ==
    {[event |-> e, handler |-> eventHandlers[e]] :
        e \in {x \in Events : eventHandlers[x] # NoHandler}}

\* a socket made by io(SOCKET_URL, ...): connect() attaches its own connect
\* and disconnect listeners and then those of setupEventHandlers, a
\* reconnect attaches those of setupEventHandlers only.  listening: the
\* events the service's own listeners are attached for.  joined: user:join
\* has been emitted on the socket for its present connection
NewSocket(kind) ==
    [kind |-> kind, state |-> "connecting", listening |-> ServiceEvents,
     handlers |-> StoredHandlers, joined |-> FALSE]

\* this.socket.emit("user:join", userData): the socket sends it, or keeps
\* it until it is connected
UserJoinEmitted(sockets, j) ==
    IF j = 0 THEN sockets ELSE [sockets EXCEPT ![j].joined = TRUE]

\* the disconnect listeners on a socket
DisconnectListeners(sk) ==
    IF "disconnect" \notin sk.listening THEN 0
    ELSE IF sk.kind = "connect" THEN 2 ELSE 1

\* this.socket.removeAllListeners(); this.socket.close()
Stripped(sockets, i) ==
    IF i = 0 THEN sockets
    ELSE [sockets EXCEPT ![i].listening = {}, ![i].state = "closed",
                         ![i].handlers = {}]

\* setTimeout(..., delay): the pending timers are a bag, kept as a sequence
\* in the order of their delays
WithTimer(ts, t) ==
    LET before == Cardinality({j \in 1..Len(ts) : ts[j].delay <= t.delay})
    IN  [j \in 1..Len(ts) + 1 |->
            IF j <= before THEN ts[j]
            ELSE IF j = before + 1 THEN t ELSE ts[j - 1]]

\* the part of the service handleReconnection reads and writes
ServiceState == [attempts |-> reconnectAttempts, sockets |-> clientSockets,
                 timers |-> timers]

\* handleReconnection() without its test of the counter
HandleReconnectionUncapped(st) ==
    [attempts |-> st.attempts + 1,
     sockets |-> Stripped(st.sockets, current),
     timers |-> WithTimer(st.timers,
                          [attempt |-> st.attempts + 1,
                           delay |-> Backoff(st.attempts + 1)])]

\* handleReconnection()
HandleReconnection(st) ==
    IF st.attempts < MaxReconnectAttempts
    THEN [attempts |-> st.attempts + 1,
          sockets |-> Stripped(st.sockets, current),
          timers |-> WithTimer(st.timers,
                               [attempt |-> st.attempts + 1,
                                delay |-> Backoff(st.attempts + 1)])]
    ELSE st

\* every disconnect listener of the dropped socket runs: the listeners
\* were copied before the first of them stripped the socket
RECURSIVE Repeated(_, _)
Repeated(st, k) ==
    IF k = 0 THEN st ELSE Repeated(HandleReconnection(st), k - 1)

\* connect(userData)
ClientConnect ==
    /\ Len(clientSockets) < MaxSockets
    /\ ~(current # 0 /\ clientSockets[current].state = "connected")
    /\ clientSockets' = Append(clientSockets, NewSocket("connect"))
    /\ current' = Len(clientSockets) + 1
    /\ UNCHANGED <<reconnectAttempts, timers, attemptsSinceConnect, handlerVars,
                   serverVars, rtcVars>>

\* the "connect" event on socket i: the listener reads this.socket.id
\* before it resets the counter, and throws when this.socket is null; the
\* listener connect() attached then emits user:join on this.socket
SocketConnects(i) ==
    /\ clientSockets[i].state = "connecting"
    /\ clientSockets' =
          LET connected == [clientSockets EXCEPT ![i].state = "connected"]
          IN  IF /\ "connect" \in clientSockets[i].listening
                 /\ clientSockets[i].kind = "connect"
              THEN UserJoinEmitted(connected, current)
              ELSE connected
    /\ reconnectAttempts' = IF /\ "connect" \in clientSockets[i].listening
                               /\ current # 0
                            THEN 0 ELSE reconnectAttempts
    /\ attemptsSinceConnect' = 0
    /\ UNCHANGED <<current, timers, handlerVars, serverVars, rtcVars>>

\* the "disconnect" event on socket i with reason "io server disconnect"
ServerDrop(i) ==
    /\ clientSockets[i].state = "connected"
    /\ LET dropped == [ServiceState EXCEPT !.sockets[i].state = "closed"]
           after == Repeated(dropped, DisconnectListeners(clientSockets[i]))
       IN  /\ reconnectAttempts' = after.attempts
           /\ clientSockets' = after.sockets
           /\ timers' = after.timers
           /\ attemptsSinceConnect' =
                  attemptsSinceConnect + Len(after.timers) - Len(timers)
    /\ UNCHANGED <<current, handlerVars, serverVars, rtcVars>>

\* the "disconnect" event on socket i with another reason ("transport
\* close", "ping timeout", ...): the listeners do nothing; the socket was
\* made without reconnection: false, so the library goes on trying to
\* connect it again, as a connection the server has not seen before
TransportDrop(i) ==
    /\ clientSockets[i].state = "connected"
    /\ clientSockets' = [clientSockets EXCEPT ![i].state = "connecting",
                                               ![i].joined = FALSE]
    /\ UNCHANGED <<reconnectAttempts, current, timers, attemptsSinceConnect,
                   handlerVars, serverVars, rtcVars>>

\* a reconnect timer fires: a new socket replaces this.socket
TimerFires(k) ==
    /\ Len(clientSockets) < MaxSockets
    /\ timers' = [j \in 1..Len(timers) - 1 |->
                     IF j < k THEN timers[j] ELSE timers[j + 1]]
    /\ clientSockets' = Append(clientSockets, NewSocket("reconnect"))
    /\ current' = Len(clientSockets) + 1
    /\ UNCHANGED <<reconnectAttempts, attemptsSinceConnect, handlerVars,
                   serverVars, rtcVars>>

\* disconnect()
ClientDisconnect ==
    /\ current # 0
    /\ clientSockets' = [clientSockets EXCEPT ![current].state = "closed"]
    /\ current' = 0
    /\ UNCHANGED <<reconnectAttempts, timers, attemptsSinceConnect, handlerVars,
                   serverVars, rtcVars>>

\* on(event, handler): the handler is wrapped in a new function
On(e) ==
    /\ wrapped' = wrapped + 1
    /\ eventHandlers' = [eventHandlers EXCEPT ![e] = wrapped + 1]
    /\ clientSockets' =
          IF current = 0 THEN clientSockets
          ELSE [clientSockets EXCEPT ![current].handlers =
                   @ \cup {[event |-> e, handler |-> wrapped + 1]}]
    /\ UNCHANGED <<reconnectAttempts, current, timers, attemptsSinceConnect,
                   serverVars, rtcVars>>

\* off(event): socket.off(event) takes every listener of the event away,
\* those the service attached for itself included
Off(e) ==
    /\ eventHandlers' = IF e \in Events
                        THEN [eventHandlers EXCEPT ![e] = NoHandler]
                        ELSE eventHandlers
    /\ clientSockets' =
          IF current = 0 THEN clientSockets
          ELSE [clientSockets EXCEPT ![current].handlers =
                                        {h \in @ : h.event # e},
                                    ![current].listening = @ \ {e}]
    /\ UNCHANGED <<reconnectAttempts, current, timers, attemptsSinceConnect,
                   wrapped, serverVars, rtcVars>>

\* isConnected(): this.socket && this.socket.connected
IsConnected ==
    IF current = 0 THEN FALSE ELSE clientSockets[current].state = "connected"

\* getConnectionStatus()
GetConnectionStatus ==
    IF current = 0 THEN "disconnected"
    ELSE IF clientSockets[current].state = "connected" THEN "connected"
    ELSE "connecting"

----------------------------------------------------------------------------
(* The caller's WebRTCService (frontend/src/lib/webrtc.js)                 *)

Null == "null"

\* this.callId = null
NoCall == 0

\* calls started in a run; a callId is call-<time>-<random>, here the
\* number of the call
MaxCalls == 2

\* local ICE candidates gathered in a run
MaxCandidates == 2

\* the connections an answer may come from
Callees == {"s2", "s3"}

\* cleanup(): the peer connection is closed and every field reset
CleanedUp == [peerConnection |-> Null, callId |-> NoCall,
              remoteSocketId |-> Null]

\* onicecandidate: the candidate is relayed only if remoteSocketId is set and
\* socketService.emit finds the socket connected; it is not kept otherwise
SentTo(service, connected) ==
    IF service.remoteSocketId # Null /\ connected
    THEN service.remoteSocketId ELSE Null

\* startCall(targetUserId): a new callId and peer connection, the offer set
\* as local description and sent; remoteSocketId is left as it is.  Without
\* camera and microphone getUserMedia throws and the catch cleans up
StartCall(media) ==
    /\ calls' = calls + 1
    /\ webrtc' = IF media
                 THEN [webrtc EXCEPT !.callId = calls + 1,
                                     !.peerConnection = "have-local-offer"]
                 ELSE CleanedUp
    /\ UNCHANGED <<iceLog, socketVars, serverVars>>

\* the peer connection hands a local candidate to onicecandidate
IceCandidate ==
    /\ webrtc.peerConnection # Null
    /\ iceLog' = Append(iceLog,
                        [callId |-> webrtc.callId,
                         to |-> SentTo(webrtc, IsConnected)])
    /\ UNCHANGED <<webrtc, calls, socketVars, serverVars>>

\* handleAnswer(answer, fromSocketId): remoteSocketId is set before
\* setRemoteDescription, which needs a peer connection that has sent an offer
HandleAnswer(fromSocketId) ==
    /\ webrtc' = [webrtc EXCEPT
                     !.remoteSocketId = fromSocketId,
                     !.peerConnection =
                         IF @ = "have-local-offer" THEN "stable" ELSE @]
    /\ UNCHANGED <<calls, iceLog, socketVars, serverVars>>

\* endCall(): call:end to the peer if there is one, then cleanup()
EndCall ==
    /\ webrtc' = CleanedUp
    /\ UNCHANGED <<calls, iceLog, socketVars, serverVars>>

----------------------------------------------------------------------------
(* Initial states *)

InitRest ==
    /\ sock = [c \in Conns |-> "new"]
    /\ req = NoReq
    /\ emits = <<>>
    /\ rooms = [m \in RoomIds |-> <<>>]
    /\ videoUserName = [c \in Conns |-> Undefined]
    /\ videoNativeLanguage = [c \in Conns |-> Undefined]
    /\ shouldShowCallButton = [c \in Conns |-> FALSE]
    /\ otherPersonSocketId = [c \in Conns |-> Undefined]
    /\ activeUsers = <<>>
    /\ task = [c \in Conns |-> Idle]
    /\ reconnectAttempts = 0
    /\ clientSockets = <<>>
    /\ current = 0
    /\ timers = <<>>
    /\ attemptsSinceConnect = 0
    /\ eventHandlers = [e \in Events |-> NoHandler]
    /\ wrapped = 0
    /\ webrtc = [peerConnection |-> Null, callId |-> NoCall,
                 remoteSocketId |-> Null]
    /\ calls = 0
    /\ iceLog = <<>>

InitCommon ==
    /\ InitRest
    /\ store = <<>>
    /\ now = 0

InitServer ==
    /\ InitCommon
    /\ idA = NoId /\ idB = NoId
    /\ convSend = Unset /\ convHist = Unset

InitDerive ==
    /\ InitCommon
    /\ idA \in IdStrings /\ idB \in IdStrings
    /\ convSend = Unset /\ convHist = Unset

----------------------------------------------------------------------------
(* The room coordinator on its own *)

NextRoom ==
    \/ \E c \in Conns : Connect(c)
    \/ \E c \in Conns : Disconnect(c)
    \/ \E c \in Conns, m \in MeetingIds, n \in Names, l \in Locales :
           JoinVideoCallRoom(c, m, n, l)

SpecRoom == InitServer /\ [][NextRoom]_vars

(* Sending and reading messages: presence, chat:message, chat:get-history *)

NextChat ==
    \/ \E c \in MsgConns : Connect(c)
    \/ \E c \in MsgConns : Disconnect(c)
    \/ \E c \in MsgConns : \E u \in {UserOf[c], NoId} : UserJoin(c, TRUE, u)
    \/ \E c \in MsgConns, x \in SendTexts :
           \E t \in UserIds \ {UserOf[c]} :
               Len(store) < MaxMsgs /\ ChatMessage(c, t, x, UserOf[c], Undefined)
    \/ \E c \in MsgConns : ChatMessageDeliver(c)
    \/ \E c \in MsgConns, l \in Limits :
           \E t \in UserIds \ {UserOf[c]} : GetHistory(c, UserOf[c], t, l)
    \/ Tick

SpecChat == InitServer /\ [][NextChat]_vars

(* Reading history: one connection sends and reads in any conversation *)

NextHist ==
    \/ \E c \in HistConns : Connect(c)
    \/ \E c \in HistConns, t \in UserIds, x \in SendTexts, u \in UserIds :
           /\ Len(store) < MaxHistMsgs
           /\ UserOf[c] \in {t, u}
           /\ ChatMessage(c, t, x, u, Undefined)
    \/ \E c \in HistConns : ChatMessageDeliver(c)
    \/ \E c \in HistConns, t \in UserIds, l \in Limits :
           GetHistory(c, UserOf[c], t, l)
    \/ Tick

SpecHist == InitServer /\ [][NextHist]_vars

(* Mutating a stored message *)

\* the server starts on a database that already holds one message from
\* user "1" to user "2"
InitMut ==
    /\ InitRest
    /\ now = 0
    /\ store = <<[senderId |-> <<49>>, receiverId |-> <<50>>, text |-> "hi",
                  fileUrl |-> Undefined,
                  conversationId |-> <<49, 45, 50>>,
                  reactions |-> <<>>,
                  isEdited |-> FALSE, editedAt |-> NullDate,
                  isDeleted |-> FALSE, deletedAt |-> NullDate,
                  createdAt |-> 0, updatedAt |-> 0]>>
    /\ idA = NoId /\ idB = NoId
    /\ convSend = Unset /\ convHist = Unset

(* presence and message:react *)

NextReact ==
    \/ \E c \in MsgConns : Connect(c)
    \/ \E c \in MsgConns : Disconnect(c)
    \/ \E c \in MsgConns : UserJoin(c, TRUE, UserOf[c])
    \/ \E c \in MsgConns, i \in 1..MaxMsgs, e \in Emojis, u \in UserIds :
           React(c, i, e, u)
    \/ \E c \in MsgConns : ReactSave(c)
    \/ \E c \in MsgConns : ReactBroadcast(c)

SpecReact == InitMut /\ [][NextReact]_vars

(* presence, message:edit and message:delete *)

NextEdit ==
    \/ \E c \in MsgConns : Connect(c)
    \/ \E c \in MsgConns : Disconnect(c)
    \/ \E c \in MsgConns : UserJoin(c, TRUE, UserOf[c])
    \/ \E c \in MsgConns, i \in 1..MaxMsgs, x \in EditTexts, u \in UserIds :
           Edit(c, i, x, u)
    \/ \E c \in MsgConns : EditSave(c)
    \/ \E c \in MsgConns : EditBroadcast(c)
    \/ \E c \in MsgConns, i \in 1..MaxMsgs, u \in UserIds : Delete(c, i, u)
    \/ \E c \in MsgConns : DeleteSave(c)
    \/ \E c \in MsgConns : DeleteBroadcast(c)
    \/ Tick

SpecEdit == InitMut /\ [][NextEdit]_vars

(* The id derivation on its own *)

NextDerive ==
    \/ DeriveOnSend
    \/ DeriveOnHistory

SpecDerive == InitDerive /\ [][NextDerive]_vars

(* Presence and the signalling relays: any connection may register as    *)
(* any user, or with a profile that has no _id                             *)

NextSignal ==
    \/ \E c \in Conns : Connect(c)
    \/ \E c \in Conns : Disconnect(c)
    \/ \E c \in Conns, u \in UserIds \cup {NoId} : UserJoin(c, TRUE, u)
    \/ \E c \in Conns, t \in UserIds, d \in Signals :
           WebrtcOffer(c, TRUE, t, d.payload, d.callId)
    \/ \E c \in Conns : WebrtcOffer(c, FALSE, NoId, Undefined, Undefined)
    \/ \E c \in Conns, t \in Conns, d \in Signals :
           WebrtcAnswer(c, TRUE, t, d.payload, d.callId)
    \/ \E c \in Conns :
           WebrtcAnswer(c, FALSE, Undefined, Undefined, Undefined)
    \/ \E c \in Conns, t \in Conns, d \in Signals :
           WebrtcIceCandidate(c, TRUE, t, d.payload, d.callId)
    \/ \E c \in Conns :
           WebrtcIceCandidate(c, FALSE, Undefined, Undefined, Undefined)
    \/ \E c \in Conns, t \in Conns, k \in CallIds : CallEnd(c, TRUE, t, k)
    \/ \E c \in Conns : CallEnd(c, FALSE, Undefined, Undefined)

SpecSignal == InitServer /\ [][NextSignal]_vars

(* Rooms and the relays of the later revision, next to call:end *)

NextCall ==
    \/ \E c \in Conns : Connect(c)
    \/ \E c \in Conns : Disconnect(c)
    \/ \E c \in Conns, m \in MeetingIds :
           JoinVideoCallRoom(c, m, Undefined, Undefined)
    \/ \E c \in Conns, t \in Conns, d \in Payloads :
           CallUser(c, TRUE, t, d, c, "Ann")
    \/ \E c \in Conns :
           CallUser(c, FALSE, Undefined, Undefined, Undefined, Undefined)
    \/ \E c \in Conns, t \in Conns, d \in Payloads : AnswerCall(c, TRUE, t, d)
    \/ \E c \in Conns : AnswerCall(c, FALSE, Undefined, Undefined)
    \/ \E c \in Conns : CallEnded(c)
    \/ \E c \in Conns, t \in Conns, k \in CallIds : CallEnd(c, TRUE, t, k)
    \/ \E c \in Conns : CallEnd(c, FALSE, Undefined, Undefined)

SpecCall == InitServer /\ [][NextCall]_vars

(* Mutations seen by the two participants: each connection acts as its   *)
(* own user on the stored message and reads the conversation back          *)

NextNotify ==
    \/ \E c \in MsgConns : Connect(c)
    \/ \E c \in MsgConns : Disconnect(c)
    \/ \E c \in MsgConns : UserJoin(c, TRUE, UserOf[c])
    \/ \E c \in MsgConns, i \in 1..Len(store), e \in Emojis :
           React(c, i, e, UserOf[c])
    \/ \E c \in MsgConns : ReactSave(c)
    \/ \E c \in MsgConns : ReactBroadcast(c)
    \/ \E c \in MsgConns, i \in 1..Len(store), x \in EditTexts \ {""} :
           Edit(c, i, x, UserOf[c])
    \/ \E c \in MsgConns : EditSave(c)
    \/ \E c \in MsgConns : EditBroadcast(c)
    \/ \E c \in MsgConns, i \in 1..Len(store) : Delete(c, i, UserOf[c])
    \/ \E c \in MsgConns : DeleteSave(c)
    \/ \E c \in MsgConns : DeleteBroadcast(c)
    \/ \E c \in MsgConns : \E t \in UserIds \ {UserOf[c]} :
           GetHistory(c, UserOf[c], t, NoLimit)

SpecNotify == InitMut /\ [][NextNotify]_vars

(* Requests that fail.  Sends and reactions also succeed, since a lookup *)
(* that throws follows a stored message and a refused save follows another *)
(* handler's save; edits and deletes are drawn from those that fail: an    *)
(* unknown message, a user who is not the sender, an empty text.           *)

NextErr ==
    \/ \E c \in MsgConns : Connect(c)
    \/ \E c \in MsgConns : \E u \in {UserOf[c], NoId} : UserJoin(c, TRUE, u)
    \/ \E c \in MsgConns : UserJoin(c, FALSE, NoId)
    \/ \E c \in MsgConns, e \in DOMAIN FailureMessage : NoPayload(c, e)
    \/ \E c \in HistConns, x \in SendTexts :
           \E t \in UserIds \ {UserOf[c]} :
               Len(store) < MaxMsgs /\ ChatMessage(c, t, x, UserOf[c], Undefined)
    \/ \E c \in MsgConns : ChatMessageDeliver(c)
    \/ \E c \in MsgConns, i \in {1, MaxMsgs + 1}, e \in Emojis :
           React(c, i, e, UserOf[c])
    \/ \E c \in MsgConns : ReactSave(c)
    \/ \E c \in MsgConns : ReactBroadcast(c)
    \/ \E c \in MsgConns, i \in {1, MaxMsgs + 1}, x \in EditTexts :
           /\ IF i > Len(store) THEN TRUE
              ELSE x = "" \/ NotSender(i, UserOf[c])
           /\ Edit(c, i, x, UserOf[c])
    \/ \E c \in MsgConns : EditSave(c)
    \/ \E c \in MsgConns, i \in {1, MaxMsgs + 1} :
           /\ IF i > Len(store) THEN TRUE ELSE NotSender(i, UserOf[c])
           /\ Delete(c, i, UserOf[c])
    \/ \E c \in MsgConns : \E t \in UserIds \ {UserOf[c]} :
           WebrtcOffer(c, TRUE, t, "sdp", "k1")
    \/ \E c \in MsgConns : WebrtcOffer(c, FALSE, NoId, Undefined, Undefined)
    \/ \E c \in MsgConns :
           WebrtcAnswer(c, FALSE, Undefined, Undefined, Undefined)
    \/ \E c \in MsgConns :
           WebrtcIceCandidate(c, FALSE, Undefined, Undefined, Undefined)
    \/ \E c \in MsgConns : CallEnd(c, FALSE, Undefined, Undefined)

SpecErr == InitMut /\ [][NextErr]_vars

(* Appending: one connection sends drafts with and without sender,      *)
(* receiver, text and file metadata                                        *)

NextAppend ==
    \/ \E c \in HistConns : Connect(c)
    \/ \E c \in HistConns, t \in UserIds \cup {NoId}, x \in SendTexts,
          u \in UserIds \cup {NoId}, f \in FileUrls :
           Len(store) < MaxMsgs /\ ChatMessage(c, t, x, u, f)
    \/ \E c \in HistConns : ChatMessageDeliver(c)
    \/ Tick

SpecAppend == InitServer /\ [][NextAppend]_vars

(* The stored messages: one connection sends new messages and reacts to, *)
(* edits and deletes the first one as its own user while the clock runs  *)

NextStore ==
    \/ \E c \in HistConns : Connect(c)
    \/ \E c \in HistConns : UserJoin(c, TRUE, UserOf[c])
    \/ \E c \in HistConns, x \in SendTexts :
           \E t \in UserIds \ {UserOf[c]} :
               Len(store) < MaxMsgs /\ ChatMessage(c, t, x, UserOf[c], Undefined)
    \/ \E c \in HistConns : ChatMessageDeliver(c)
    \/ \E c \in HistConns, e \in Emojis :
           React(c, 1, e, UserOf[c])
    \/ \E c \in HistConns : ReactSave(c)
    \/ \E c \in HistConns : ReactBroadcast(c)
    \/ \E c \in HistConns, x \in EditTexts :
           Edit(c, 1, x, UserOf[c])
    \/ \E c \in HistConns : EditSave(c)
    \/ \E c \in HistConns : EditBroadcast(c)
    \/ \E c \in HistConns : Delete(c, 1, UserOf[c])
    \/ \E c \in HistConns : DeleteSave(c)
    \/ \E c \in HistConns : DeleteBroadcast(c)
    \/ \E c \in HistConns : \E t \in UserIds \ {UserOf[c]} :
           GetHistory(c, UserOf[c], t, NoLimit)
    \/ Tick

SpecStore == InitMut /\ [][NextStore]_vars

(* Delivery next to the call rooms of the later server revision: a third *)
(* connection registers as a user of its own and enters rooms, giving the  *)
(* id of another socket as the room name; s1 sends to user "2" and reacts   *)
(* to, edits and deletes the stored message and stays connected           *)

\* user id "3", who takes part in no stored message
Outsider == <<51>>

\* the user signed in behind each of the three connections
SignedIn == [c \in Conns |-> IF c \in MsgConns THEN UserOf[c] ELSE Outsider]

NextDeliver ==
    \/ \E c \in Conns : Connect(c)
    \/ \E c \in Conns \ HistConns : Disconnect(c)
    \/ \E c \in Conns : UserJoin(c, TRUE, SignedIn[c])
    \/ \E c \in Conns \ MsgConns : \E m \in MsgConns :
           JoinVideoCallRoom(c, m, Undefined, Undefined)
    \/ \E c \in HistConns : \E t \in UserIds \ {UserOf[c]} :
           Len(store) < MaxMsgs /\ ChatMessage(c, t, "hi", UserOf[c], Undefined)
    \/ \E c \in HistConns : ChatMessageDeliver(c)
    \/ \E c \in HistConns, e \in Emojis : React(c, 1, e, UserOf[c])
    \/ \E c \in HistConns : ReactSave(c)
    \/ \E c \in HistConns : ReactBroadcast(c)
    \/ \E c \in HistConns : Edit(c, 1, "yo", UserOf[c])
    \/ \E c \in HistConns : EditSave(c)
    \/ \E c \in HistConns : EditBroadcast(c)
    \/ \E c \in HistConns : Delete(c, 1, UserOf[c])
    \/ \E c \in HistConns : DeleteSave(c)
    \/ \E c \in HistConns : DeleteBroadcast(c)

SpecDeliver == InitMut /\ [][NextDeliver]_vars

(* The client's SocketService on its own *)

NextReconnect ==
    \/ ClientConnect
    \/ \E i \in 1..Len(clientSockets) : SocketConnects(i)
    \/ \E i \in 1..Len(clientSockets) : ServerDrop(i)
    \/ \E i \in 1..Len(clientSockets) : TransportDrop(i)
    \/ \E k \in 1..Len(timers) : TimerFires(k)
    \/ ClientDisconnect

SpecReconnect == InitServer /\ [][NextReconnect]_vars

(* The SocketService with handlers registered and removed through on() *)
(* and off()                                                            *)

\* most sockets the service creates in a run with handlers
MaxHandlerSockets == 3

NextHandlers ==
    \/ Len(clientSockets) < MaxHandlerSockets /\ ClientConnect
    \/ \E i \in 1..Len(clientSockets) : SocketConnects(i)
    \/ \E i \in 1..Len(clientSockets) : ServerDrop(i)
    \/ \E k \in 1..Len(timers) :
           Len(clientSockets) < MaxHandlerSockets /\ TimerFires(k)
    \/ ClientDisconnect
    \/ \E e \in Events : wrapped < MaxHandlers /\ On(e)
    \/ \E e \in Events : Off(e)

SpecHandlers == InitServer /\ [][NextHandlers]_vars

(* The SocketService next to an application that calls off() for the   *)
(* connect and disconnect events, as the test page does on unmount      *)

NextOff ==
    \/ Len(clientSockets) < MaxHandlerSockets /\ ClientConnect
    \/ \E i \in 1..Len(clientSockets) : SocketConnects(i)
    \/ \E i \in 1..Len(clientSockets) : ServerDrop(i)
    \/ \E k \in 1..Len(timers) :
           Len(clientSockets) < MaxHandlerSockets /\ TimerFires(k)
    \/ \E e \in ServiceEvents : Off(e)

SpecOff == InitServer /\ [][NextOff]_vars

(* The caller's WebRTCService over a SocketService that connects, is     *)
(* dropped and is disconnected                                           *)

NextRtc ==
    \/ clientSockets = <<>> /\ ClientConnect
    \/ \E i \in 1..Len(clientSockets) : SocketConnects(i)
    \/ \E i \in 1..Len(clientSockets) : TransportDrop(i)
    \/ \E media \in BOOLEAN : calls < MaxCalls /\ StartCall(media)
    \/ Len(iceLog) < MaxCandidates /\ IceCandidate
    \/ \E c \in Callees : HandleAnswer(c)
    \/ EndCall

SpecRtc == InitServer /\ [][NextRtc]_vars

----------------------------------------------------------------------------
(* Claims about the room coordinator (SpecRoom) *)

C1Waiter(a) == <<RoomRoleWaiter(a)>>

C1Step ==
    \A a \in Conns, b \in Conns, m \in MeetingIds :
        (req'.ev = "joinVideoCallRoom" /\ req'.meetingId = m) =>
            /\ (rooms[m] = <<>> /\ req'.conn = a) => emits' = C1Waiter(a)
            /\ ( /\ a # b
                 /\ req.ev = "joinVideoCallRoom"
                 /\ req.conn = a
                 /\ req.meetingId = m
                 /\ rooms[m] = <<a>>
                 /\ emits = C1Waiter(a)
                 /\ req'.conn = b )
               => emits' =
                    << [to |-> b, ev |-> "roomRole", role |-> "caller",
                        otherSocketId |-> a,
                        otherUserName |->
                            IF req.userName = Undefined
                            THEN "Other participant" ELSE req.userName,
                        otherUserLanguage |->
                            IF req.nativeLanguage = Undefined
                            THEN "en-US" ELSE req.nativeLanguage],
                       [to |-> a, ev |-> "expectingCallFrom",
                        socketId |-> b,
                        userName |-> req'.userName,
                        userLanguage |->
                            IF req'.nativeLanguage = Undefined
                            THEN "en-US" ELSE req'.nativeLanguage] >>

\* C1: a connection that joins an empty room is sent role waiter; when a
\* different connection joins next, the joiner is sent role caller with the
\* waiter's connection id, display name and locale, and the waiter is sent
\* expectingCallFrom with the joiner's connection id, display name and
\* locale (a locale that was not supplied is sent as "en-US", a missing
\* waiter name as "Other participant").
C1_RoleByArrival == [][C1Step]_vars

\* the second joiner has just been made caller of a waiter named Ann
W_C1 ==
    \E a \in Conns, b \in Conns :
        /\ a # b
        /\ rooms["m1"] = <<a, b>>
        /\ req.ev = "joinVideoCallRoom"
        /\ req.conn = b
        /\ Len(emits) = 2
        /\ emits[1].to = b
        /\ emits[1].role = "caller"
        /\ emits[1].otherSocketId = a
        /\ emits[1].otherUserName = "Ann"
        /\ emits[2].to = a
        /\ emits[2].ev = "expectingCallFrom"

\* C2: a call room never holds more than two participants.
C2_RoomAtMostTwo == \A m \in MeetingIds : Len(rooms[m]) <= 2

\* C3: two connections that are both in a room are never both told to call
\* each other.
C3_GlareFree ==
    \A m \in MeetingIds, a \in Conns, b \in Conns :
        (a # b /\ a \in Range(rooms[m]) /\ b \in Range(rooms[m])) =>
            ~ ( /\ shouldShowCallButton[a] /\ otherPersonSocketId[a] = b
                /\ shouldShowCallButton[b] /\ otherPersonSocketId[b] = a )

----------------------------------------------------------------------------
(* Claims about the id derivation (SpecDerive) *)

\* C4: the conversation id does not depend on the order of the two ids: what
\* chat:message derives for (a, b) is what derive gives for (b, a), it is
\* the id that sorts first, the separator, then the other id, and
\* chat:get-history asked by the other party derives the same id.
C4_DeriveSymmetric ==
    /\ convSend # Unset =>
           /\ convSend = Derive(idB, idA)
           /\ \E lo \in {idA, idB}, hi \in {idA, idB} :
                  /\ {lo, hi} = {idA, idB}
                  /\ (lo # NoId /\ hi # NoId) => ~LexLess(hi, lo)
                  /\ convSend = JoinStr(lo) \o <<Dash>> \o JoinStr(hi)
    /\ convHist # Unset => convHist = Derive(idA, idB)
    /\ (convSend # Unset /\ convHist # Unset) => convSend = convHist

\* both handlers derived an id for a pair the sort has to swap
W_C4 ==
    /\ convSend # Unset
    /\ convHist # Unset
    /\ idA # NoId /\ idB # NoId
    /\ LexLess(idB, idA)

----------------------------------------------------------------------------
(* Claims about reactions (SpecReact) *)

\* what one message:react call run on its own leaves stored
ReactAlone(reactions, userId, emoji) ==
    SavedReactions(reactions, ReactToggle(reactions, userId, emoji))

\* the handler's save writes onto the array it read
NotInterleaved(t, stored) ==
    IF t.op = "push"
    THEN stored = SubSeq(t.reactions, 1, Len(t.reactions) - 1)
    ELSE ~t.stale

C5Step ==
    \A c \in Conns :
        ( /\ req'.ev = "message:react"
          /\ req'.stage = "save"
          /\ req'.conn = c
          /\ task'[c].pc = "bcast"
          /\ NotInterleaved(task[c], store[task[c].id].reactions) )
        => LET t == task[c]
               before == store[t.id].reactions
               after == store'[t.id].reactions
               key == <<t.userId, t.emoji>>
           IN  /\ key \notin Pairs(before) =>
                      /\ t.action = "added"
                      /\ Pairs(after) = Pairs(before) \cup {key}
               /\ key \in Pairs(before) =>
                      /\ t.action = "removed"
                      /\ Pairs(after) = Pairs(before) \ {key}
               /\ Pairs(ReactAlone(after, t.userId, t.emoji)) = Pairs(before)

\* C5: a message:react call that is not interleaved with another adds the
\* (userId, emoji) pair and reports "added" when the pair is absent, removes
\* it and reports "removed" when it is present, and the same call made once
\* more leaves the set of pairs as it was before the first.
C5_ReactToggles == [][C5Step]_vars

\* a reaction was added and the same call has just removed it again
W_C5 ==
    /\ req.ev = "message:react"
    /\ req.stage = "save"
    /\ task[req.conn].pc = "bcast"
    /\ task[req.conn].action = "removed"
    /\ ~task[req.conn].stale
    /\ store[1].reactions = <<>>

\* C6: the reactions of a message hold at most one entry for each
\* (userId, emoji) pair, also when react handlers interleave.
C6_ReactionsUnique ==
    \A i \in 1..Len(store) :
        \A j \in 1..Len(store[i].reactions),
           k \in 1..Len(store[i].reactions) :
            ( /\ store[i].reactions[j].userId = store[i].reactions[k].userId
              /\ store[i].reactions[j].emoji = store[i].reactions[k].emoji )
            => j = k

----------------------------------------------------------------------------
(* Claims about edit and delete (SpecEdit) *)

\* a request by someone who is not the sender: one error to the requester,
\* nothing stored, no handler left to broadcast
RefusedStep(ev) ==
    ( /\ req'.ev = ev
      /\ req'.stage = "find"
      /\ req'.messageId <= Len(store)
      /\ store[req'.messageId].senderId # req'.userId )
    => /\ Len(emits') = 1
       /\ emits'[1].ev = "error"
       /\ emits'[1].to = req'.conn
       /\ store' = store
       /\ task' = task

\* an edit by the sender takes the current time
EditAcceptedStep ==
    ( /\ req'.ev = "message:edit"
      /\ req'.stage = "find"
      /\ req'.messageId <= Len(store)
      /\ store[req'.messageId].senderId = req'.userId )
    => /\ task'[req'.conn].pc = "save"
       /\ task'[req'.conn].editedAt = now
       /\ emits' = <<>>

\* the save of an edit writes the new text
EditSavedStep ==
    (req'.ev = "message:edit" /\ req'.stage = "save")
    => LET t == task[req'.conn]
       IN  /\ store[t.id].senderId = t.userId
           /\ store'[t.id].text = t.newText
           /\ store'[t.id].isEdited
           /\ store'[t.id].editedAt = t.editedAt

\* the save of an edit writes a non-empty new text and refuses an empty one
EditSavedOrInvalidStep ==
    (req'.ev = "message:edit" /\ req'.stage = "save")
    => LET t == task[req'.conn]
       IN  /\ store[t.id].senderId = t.userId
           /\ t.newText # "" =>
                  /\ store'[t.id].text = t.newText
                  /\ store'[t.id].isEdited
                  /\ store'[t.id].editedAt = t.editedAt
           /\ t.newText = "" =>
                  /\ store' = store
                  /\ emits' = <<ErrorTo(req'.conn, "Failed to edit message")>>
                  /\ task'[req'.conn] = Idle

\* C7 as claimed: an edit by anyone but the sender fails with an error to
\* the requester, changes nothing and sends no edit event; an edit by the
\* sender sets text to the new text, isEdited to true and editedAt to the
\* current time.
C7_EditBySenderOnly ==
    [][RefusedStep("message:edit") /\ EditAcceptedStep /\ EditSavedStep]_vars

\* C7 amended: as claimed, but the sender's edit sets the text only when
\* the new text is not empty; an empty text fails validation, is answered
\* with an error and changes nothing.
C7_EditBySenderValidText ==
    [][RefusedStep("message:edit") /\ EditAcceptedStep
       /\ EditSavedOrInvalidStep]_vars

\* the sender's edit has just been saved
W_C7 ==
    /\ req.ev = "message:edit"
    /\ req.stage = "save"
    /\ task[req.conn].pc = "bcast"
    /\ store[1].text = "yo"
    /\ store[1].isEdited
    /\ store[1].editedAt = 1

DeleteSavedStep ==
    (req'.ev = "message:delete" /\ req'.stage = "save")
    => LET t == task[req'.conn]
       IN  /\ store[t.id].senderId = t.userId
           /\ store'[t.id].text = Placeholder
           /\ store'[t.id].isDeleted
           /\ store'[t.id].deletedAt = t.deletedAt

DeleteAcceptedStep ==
    ( /\ req'.ev = "message:delete"
      /\ req'.stage = "find"
      /\ req'.messageId <= Len(store)
      /\ store[req'.messageId].senderId = req'.userId )
    => /\ task'[req'.conn].pc = "save"
       /\ task'[req'.conn].deletedAt = now

StaysDeletedStep ==
    \A i \in 1..Len(store) :
        store[i].isDeleted => (i <= Len(store') /\ store'[i].isDeleted)

\* C8: a delete by the sender replaces the text with the placeholder and
\* sets isDeleted and deletedAt; a delete by anyone else fails and changes
\* nothing; a message that is deleted stays deleted whatever is done next.
C8_TombstoneForGood ==
    [][RefusedStep("message:delete") /\ DeleteAcceptedStep
       /\ DeleteSavedStep /\ StaysDeletedStep]_vars

\* an edit has just been saved on a message that was deleted before
W_C8 ==
    /\ req.ev = "message:edit"
    /\ req.stage = "save"
    /\ task[req.conn].pc = "bcast"
    /\ store[1].isDeleted
    /\ store[1].deletedAt = 0
    /\ store[1].editedAt = 1

----------------------------------------------------------------------------
(* Claims about history (SpecHist) and sending (SpecChat) *)

\* the ids a chat:history event carries, in its order
Returned == [k \in 1..Len(emits[1].messages) |-> emits[1].messages[k]._id]

\* C9: a history request with a positive limit L on a conversation of n
\* stored messages returns min(L, n) of them, each a message of the two
\* users of that conversation as it is stored, none twice, in ascending
\* creation time, and no message left out is newer than one returned.
C9_HistoryMostRecentAscending ==
    (req.ev = "chat:get-history" /\ EffectiveLimit(req.limit) > 0)
    => LET conv == Derive(req.userId, req.targetUserId)
           all == InConversation(conv)
           ids == Returned
       IN  /\ Len(emits) = 1
           /\ emits[1].ev = "chat:history"
           /\ emits[1].to = req.conn
           /\ Len(ids) = Min(EffectiveLimit(req.limit), Cardinality(all))
           /\ \A k \in 1..Len(ids) :
                  /\ ids[k] \in all
                  /\ {store[ids[k]].senderId, store[ids[k]].receiverId}
                         = {req.userId, req.targetUserId}
                  /\ emits[1].messages[k] = HistoryEntry(ids[k])
           /\ \A j \in 1..Len(ids), k \in 1..Len(ids) :
                  ids[j] = ids[k] => j = k
           /\ \A k \in 1..Len(ids) - 1 :
                  store[ids[k]].createdAt <= store[ids[k + 1]].createdAt
           /\ \A i \in all \ Range(ids) : \A k \in 1..Len(ids) :
                  store[i].createdAt <= store[ids[k]].createdAt

\* a request with limit 1 on a conversation of two messages created at
\* different times, with a message of another conversation in the store
W_C9 ==
    /\ req.ev = "chat:get-history"
    /\ req.limit = 1
    /\ \E i \in 1..Len(store) : store[i].conversationId # emits[1].conversationId
    /\ \E i \in 1..Len(store), j \in 1..Len(store) :
           /\ InConversation(emits[1].conversationId) = {i, j}
           /\ store[i].createdAt < store[j].createdAt
           /\ Returned = <<j>>

\* C10: a valid chat:message from X to Y is stored, is confirmed by exactly
\* one chat:message:sent to X without an error, is delivered to a connection
\* of Y exactly when Y is registered at that time, and every later history
\* request of Y for the pair includes it.
C10_SendConfirmedAndListed ==
    /\ (req.ev = "chat:message" /\ req.stage = "deliver")
       => /\ req.id \in 1..Len(store)
          /\ store[req.id].receiverId = req.targetUserId
          /\ Cardinality({k \in 1..Len(emits) :
                             /\ emits[k].ev = "chat:message:sent"
                             /\ emits[k].to = req.conn}) = 1
          /\ \A k \in 1..Len(emits) : emits[k].ev # "error"
          /\ (\E k \in 1..Len(emits) : emits[k].ev = "chat:message")
             <=> (\E i \in 1..Len(activeUsers) :
                      activeUsers[i]._id = req.targetUserId)
          /\ \A k \in 1..Len(emits) :
                 emits[k].ev = "chat:message"
                 => UserIdOf(emits[k].to) = req.targetUserId
    /\ req.ev = "chat:get-history"
       => \A i \in 1..Len(store) :
              ( /\ store[i].receiverId = req.userId
                /\ store[i].senderId = req.targetUserId )
              => i \in Range(Returned)

----------------------------------------------------------------------------
(* Claims about presence and the signalling relays (SpecSignal, SpecCall) *)

\* the entries activeUsers holds for a user
EntriesOf(uid) == {i \in 1..Len(activeUsers) : activeUsers[i]._id = uid}

\* C11: after user:join is handled for a user (every entry of the registry
\* having an _id), the registry holds exactly one entry for that user, the
\* one of the joining connection, and the lookup by user id that message
\* delivery and the offer relay use returns the joining connection.
C11_PresenceLastWriterWins ==
    ( /\ req.ev = "user:join"
      /\ req.userId # NoId
      /\ EntriesOf(NoId) = {} )
    => /\ Cardinality(EntriesOf(req.userId)) = 1
       /\ \A i \in EntriesOf(req.userId) :
              activeUsers[i].socketId = req.conn
       /\ FindByToString(activeUsers, req.userId).socketId = req.conn

C12Step ==
    /\ \A c \in Conns :
           (req'.ev = "disconnect" /\ req'.conn = c /\ sock[c] = "open")
           => /\ \A i \in 1..Len(activeUsers') :
                     activeUsers'[i].socketId # c
              /\ IF Registered(c)
                 THEN /\ \A k \in 1..Len(emits') :
                             /\ emits'[k].ev = "user:offline"
                             /\ emits'[k].userId = UserIdOf(c)
                             /\ emits'[k].socketId = c
                             /\ emits'[k].to # c
                      /\ \A d \in Conns \ {c} :
                             Cardinality({k \in 1..Len(emits') :
                                             emits'[k].to = d})
                                 = IF sock[d] = "open" THEN 1 ELSE 0
                 ELSE emits' = <<>>
    /\ \A k \in 1..Len(emits') :
           emits'[k].ev = "user:offline"
           => /\ req'.ev = "disconnect"
              /\ emits'[k].socketId = req'.conn
              /\ sock[req'.conn] = "open"
              /\ sock'[req'.conn] = "closed"
    /\ \A c \in Conns : sock[c] = "closed" => sock'[c] = "closed"

\* C12: the disconnect of a connection removes its registry entry; if it
\* was registered every other connected socket is sent exactly one
\* user:offline naming it, otherwise nothing is sent; the connection itself
\* is sent none, and since user:offline for a connection is only sent in the
\* step that closes it and a closed connection stays closed, no connection
\* causes a second one.
C12_OfflineOncePerDisconnect == [][C12Step]_vars

\* a registered connection has just disconnected with two others connected
W_C12 ==
    /\ req.ev = "disconnect"
    /\ Len(emits) = 2
    /\ emits[1].ev = "user:offline"
    /\ emits[1].userId # NoId
    /\ emits[1].to # emits[2].to

\* C13: webrtc:offer for a registered target delivers {offer, callId,
\* fromUserId, fromSocketId} with offer and callId as sent, to one
\* connection, which is registered as the target; for a target that is not
\* registered nothing is sent to anyone, the caller included.
C13_OfferToTargetOrDropped ==
    (req.ev = "webrtc:offer" /\ req.given)
    => IF EntriesOf(req.targetUserId) # {}
       THEN /\ Len(emits) = 1
            /\ emits[1].ev = "webrtc:offer"
            /\ UserIdOf(emits[1].to) = req.targetUserId
            /\ emits[1].offer = req.offer
            /\ emits[1].callId = req.callId
            /\ emits[1].fromUserId = UserIdOf(req.conn)
            /\ emits[1].fromSocketId = req.conn
       ELSE emits = <<>>

\* C14: webrtc:answer and webrtc:ice-candidate deliver to the connection
\* named by targetSocketId and to no other, with the answer or candidate
\* and the callId as sent and fromSocketId the sender's connection id,
\* whatever the registry holds and whatever the payload is.
C14_AnswerAndCandidateByConnection ==
    /\ (req.ev = "webrtc:answer" /\ req.given)
       => emits = IF sock[req.targetSocketId] = "open"
                  THEN <<[to |-> req.targetSocketId, ev |-> "webrtc:answer",
                          answer |-> req.answer, callId |-> req.callId,
                          fromSocketId |-> req.conn]>>
                  ELSE <<>>
    /\ (req.ev = "webrtc:ice-candidate" /\ req.given)
       => emits = IF sock[req.targetSocketId] = "open"
                  THEN <<[to |-> req.targetSocketId,
                          ev |-> "webrtc:ice-candidate",
                          candidate |-> req.candidate,
                          callId |-> req.callId,
                          fromSocketId |-> req.conn]>>
                  ELSE <<>>

\* a candidate with nothing in it has just been relayed between two
\* connections that never registered, past a registry entry without _id
W_C14 ==
    /\ req.ev = "webrtc:ice-candidate"
    /\ req.given
    /\ req.candidate = Undefined
    /\ Len(emits) = 1
    /\ ~Registered(req.conn)
    /\ ~Registered(req.targetSocketId)
    /\ EntriesOf(NoId) # {}

\* C15: a request to end a call sends the notice to the targeted peer only:
\* call:end to the connection it names, callEnded to connections that share
\* a room with the sender.
C15_EndReachesTargetOnly ==
    /\ (req.ev = "call:end" /\ req.given)
       => \A k \in 1..Len(emits) : emits[k].to = req.targetSocketId
    /\ req.ev = "callEnded"
       => \A k \in 1..Len(emits) :
              \E m \in MeetingIds :
                  {req.conn, emits[k].to} \subseteq Range(rooms[m])

----------------------------------------------------------------------------
(* Claims about what a mutation tells the participants (SpecNotify) *)

\* the event each mutation request broadcasts
MutationEvent(ev) ==
    CASE ev = "message:react" -> "message:reaction"
      [] ev = "message:edit" -> "message:edited"
      [] ev = "message:delete" -> "message:deleted"

C16Step ==
    /\ (req'.ev \in {"message:react", "message:edit", "message:delete"}
        /\ req'.stage = "bcast")
       => LET m == store[req'.messageId]
              participants == {m.senderId, m.receiverId}
          IN  /\ \A p \in participants :
                     EntriesOf(p) # {}
                     => \E k \in 1..Len(emits') :
                            UserIdOf(emits'[k].to) = p
              /\ \A k \in 1..Len(emits') :
                     /\ emits'[k].ev = MutationEvent(req'.ev)
                     /\ emits'[k].messageId = req'.messageId
                     /\ UserIdOf(emits'[k].to) \in participants
    /\ req'.ev = "chat:get-history"
       => /\ store' = store
          /\ \A k \in 1..Len(emits'[1].messages) :
                 emits'[1].messages[k]
                     = HistoryEntry(emits'[1].messages[k]._id)

\* C16: the broadcast that follows a saved react, edit or delete of a
\* message sends the mutation event to a connection of each participant
\* that is registered at that time and to no connection of anyone else, so
\* a participant that is not registered is sent nothing; every history
\* fetch returns the message as it is stored then, reactions, text, edit and
\* delete marks included.
C16_MutationReachesParticipants == [][C16Step]_vars

\* a delete has just been broadcast to the one participant that is
\* registered, the other being connected without having joined
W_C16 ==
    /\ req.ev = "message:delete"
    /\ req.stage = "bcast"
    /\ Len(emits) = 1
    /\ store[1].isDeleted
    /\ \E c \in MsgConns : sock[c] = "open" /\ ~Registered(c)

\* the participant that was not registered reads the deleted, edited and
\* reacted-to message back
W_C16History ==
    /\ req.ev = "chat:get-history"
    /\ Len(emits[1].messages) = 1
    /\ emits[1].messages[1].isDeleted
    /\ emits[1].messages[1].isEdited
    /\ emits[1].messages[1].reactions # <<>>

----------------------------------------------------------------------------
(* Claims about failing requests (SpecErr) *)

\* the last request came without a payload
NoPayloadGiven(r) == "given" \in DOMAIN r /\ ~r.given

HasError(es) == \E k \in 1..Len(es) : es[k].ev = "error"

C17Step ==
    /\ (HasError(emits') \/ NoPayloadGiven(req'))
       => /\ \A k \in 1..Len(emits') : emits'[k].to = req'.conn
          /\ task'[req'.conn] \in {Idle, task[req'.conn]}
    /\ \A c \in Conns :
           (task'[c] # task[c] /\ task'[c] # Idle) => emits' = <<>>

\* C17: a step of a handler that ends in an error, or that fails on a
\* missing payload, sends nothing to any connection but the requester and
\* starts no continuation of that handler; and a handler that goes on to a
\* later step has sent nothing yet.  So a failed send, history, react,
\* edit, delete or relay request causes no event at any other connection.
C17_ErrorsToRequesterOnly == [][C17Step]_vars

\* a reaction removal refused at save time, with the other connection
\* registered as a participant of the message
W_C17 ==
    /\ req.ev = "message:react"
    /\ req.stage = "save"
    /\ emits = <<ErrorTo(req.conn, "Failed to add reaction")>>
    /\ \E d \in MsgConns \ {req.conn} :
           UserIdOf(d) \in {store[1].senderId, store[1].receiverId}

\* C18: every request whose handling fails is answered with exactly one
\* error event, sent to the requester: a request without a payload, and
\* any step that reports an error reports one and nothing else.
C18_FailureYieldsOneError ==
    /\ NoPayloadGiven(req)
       => /\ Len(emits) = 1
          /\ emits[1].ev = "error"
          /\ emits[1].to = req.conn
    /\ HasError(emits)
       => /\ Len(emits) = 1
          /\ emits[1].to = req.conn

----------------------------------------------------------------------------
(* Claims about appending a message (SpecAppend) *)

\* the create step stored the draft as the next message, stamped now
Appended ==
    /\ Len(store') = Len(store) + 1
    /\ SubSeq(store', 1, Len(store)) = store
    /\ store'[Len(store')].senderId = req'.senderId
    /\ store'[Len(store')].receiverId = req'.targetUserId
    /\ store'[Len(store')].text = req'.message
    /\ store'[Len(store')].fileUrl = req'.fileUrl
    /\ store'[Len(store')].createdAt = now
    /\ task'[req'.conn].id = Len(store')
    /\ emits' = <<>>

\* the create step stored nothing and told the sender alone
Rejected ==
    /\ store' = store
    /\ task' = task
    /\ emits' = <<ErrorTo(req'.conn, "Failed to send message")>>

C19StepTextOrFile ==
    (req'.ev = "chat:message" /\ req'.stage = "create")
    => IF /\ req'.senderId # NoId
          /\ req'.targetUserId # NoId
          /\ (req'.message # "" \/ req'.fileUrl # Undefined)
       THEN Appended
       ELSE Rejected

C19StepText ==
    (req'.ev = "chat:message" /\ req'.stage = "create")
    => IF /\ req'.senderId # NoId
          /\ req'.targetUserId # NoId
          /\ req'.message # ""
       THEN Appended
       ELSE Rejected

\* C19 as claimed: a draft is stored, with an id and a timestamp, whenever
\* it has a sender, a receiver and a text or file metadata, a draft with
\* file metadata and no text included; any other draft fails, nothing is
\* stored and the sender alone is told.
C19_AppendTextOrFile == [][C19StepTextOrFile]_vars

\* C19 amended: a draft is stored, with an id and a timestamp, whenever it
\* has a sender, a receiver and a text, with or without file metadata; any
\* other draft, one with file metadata and no text included, fails, nothing
\* is stored and the sender alone is told.
C19_AppendNeedsText == [][C19StepText]_vars

\* after a message with text and file metadata was stored, a draft with
\* file metadata and no text has just been refused
W_C19 ==
    /\ req.ev = "chat:message"
    /\ req.stage = "create"
    /\ req.message = ""
    /\ req.fileUrl # Undefined
    /\ req.senderId # NoId
    /\ req.targetUserId # NoId
    /\ emits = <<ErrorTo(req.conn, "Failed to send message")>>
    /\ Len(store) = 1
    /\ store[1].fileUrl # Undefined

----------------------------------------------------------------------------
(* Claims about the client's reconnection (SpecReconnect) *)

\* the delays of attempts 1 to 5, in seconds
BackoffSeconds == <<2, 4, 8, 16, 32>>

\* the pending timers of delay d
TimersOf(ts, d) == Cardinality({j \in 1..Len(ts) : ts[j].delay = d})

\* the timers a step set
Scheduled == Len(timers') - Len(timers)

\* C20: the n-th reconnect attempt since a socket of the service last
\* connected is scheduled 2^n seconds after the drop that triggered it:
\* 2, 4, 8, 16 and 32 seconds for attempts 1 to 5.  A drop that sets k
\* timers, m attempts having been scheduled since the last connect, sets
\* them for attempts m + 1 .. m + k
C20Step ==
    Scheduled > 0 =>
        \A k \in 1..Scheduled :
            LET n == attemptsSinceConnect + k
                d == BackoffSeconds[n] * MsPerSecond
            IN  TimersOf(timers', d) = TimersOf(timers, d) + 1

C20_BackoffSinceLastConnect == [][C20Step]_vars

\* every timer is set to 2^n seconds, n being the value of
\* reconnectAttempts when it was set
C20_BackoffByCounter ==
    \A j \in 1..Len(timers) :
        /\ timers[j].attempt \in 1..MaxReconnectAttempts
        /\ timers[j].delay = BackoffSeconds[timers[j].attempt] * MsPerSecond

\* all five delays are pending at once
W_C20 == \A n \in 1..MaxReconnectAttempts :
            TimersOf(timers, BackoffSeconds[n] * MsPerSecond) > 0

\* socket i was connected and the step ended that
Dropped(i) ==
    /\ clientSockets[i].state = "connected"
    /\ clientSockets'[i].state # "connected"

\* a step in which disconnect() ran
LocalDisconnect == current # 0 /\ current' = 0

\* socket i connected in the step
Established(i) ==
    /\ clientSockets[i].state = "connecting"
    /\ clientSockets'[i].state = "connected"

C21Step ==
    /\ ( /\ reconnectAttempts = MaxReconnectAttempts
         /\ ~LocalDisconnect
         /\ \E i \in 1..Len(clientSockets) : Dropped(i) )
       => /\ timers' = timers
          /\ Len(clientSockets') = Len(clientSockets)
          /\ reconnectAttempts' = MaxReconnectAttempts
    /\ (reconnectAttempts # 0 /\ reconnectAttempts' = 0)
       => \E i \in 1..Len(clientSockets) : Established(i)

\* C21: reconnectAttempts stays within 0..maxReconnectAttempts; a drop that
\* finds it at the maximum sets no timer and creates no socket; it goes
\* back to 0 only in a step in which a socket connects
C21_CounterCappedAndReset ==
    /\ [](reconnectAttempts \in 0..MaxReconnectAttempts)
    /\ [][C21Step]_vars

\* three sockets made by connect() have been dropped by the server: six
\* calls of handleReconnection, the sixth at the maximum
W_C21 ==
    /\ reconnectAttempts = MaxReconnectAttempts
    /\ Len(timers) = MaxReconnectAttempts
    /\ Len(clientSockets) = 3
    /\ \A i \in 1..3 : /\ clientSockets[i].kind = "connect"
                       /\ clientSockets[i].state = "closed"

\* C22: when a drop finds the attempts exhausted (handleReconnection runs
\* with reconnectAttempts at the maximum), the service shows a terminal
\* disconnected state: isConnected() is false and getConnectionStatus()
\* is "disconnected"
C22Step ==
    \A i \in 1..Len(clientSockets) :
        (ServerDrop(i) /\ DisconnectListeners(clientSockets[i]) > Scheduled)
            => /\ ~IsConnected'
               /\ GetConnectionStatus' = "disconnected"

C22_ExhaustedShowsDisconnected == [][C22Step]_vars

\* C23: every drop of a connected socket that disconnect() did not cause
\* sets a reconnect timer while attempts remain, whatever its reason; a
\* step in which disconnect() ran sets none
C23Step ==
    /\ \A i \in 1..Len(clientSockets) :
           ( /\ Dropped(i)
             /\ ~LocalDisconnect
             /\ reconnectAttempts < MaxReconnectAttempts )
               => Scheduled > 0
    /\ LocalDisconnect => Scheduled = 0

C23_EveryDropSchedules == [][C23Step]_vars

\* what the listeners do: only a drop by the server sets timers
C23StepServerOnly ==
    /\ \A i \in 1..Len(clientSockets) :
           (ServerDrop(i) /\ reconnectAttempts < MaxReconnectAttempts)
               => Scheduled > 0
    /\ \A i \in 1..Len(clientSockets) : TransportDrop(i) => Scheduled = 0
    /\ LocalDisconnect => Scheduled = 0

C23_ServerDropSchedules == [][C23StepServerOnly]_vars

----------------------------------------------------------------------------
(* Claims about the handlers kept over a reconnect (SpecHandlers) *)

\* a reconnect timer fired in the step
Reconnected == Len(timers') < Len(timers)

\* the socket a reconnect made is a new one, in place as this.socket, and
\* the sockets made before are as they were
BrandNew ==
    /\ Len(clientSockets') = Len(clientSockets) + 1
    /\ current' = Len(clientSockets')
    /\ clientSockets'[current'].state = "connecting"
    /\ \A i \in 1..Len(clientSockets) : clientSockets'[i] = clientSockets[i]

\* the socket a reconnect replaces has no listeners left and is closed
OldOneStripped ==
    current # 0 =>
        /\ clientSockets[current].state = "closed"
        /\ clientSockets[current].listening = {}
        /\ clientSockets[current].handlers = {}

\* every handler on() stored and off() did not take away is on this.socket
\* while that socket is open
HandlersAttached ==
    (current # 0 /\ clientSockets[current].state # "closed")
        => StoredHandlers \subseteq clientSockets[current].handlers

\* C24: a reconnect attempt makes a brand-new socket, the one it replaces
\* having been stripped of its listeners and closed first, and every
\* handler registered through on() and not removed through off() is on
\* the new socket from the step that made it
C24Step ==
    Reconnected => /\ BrandNew
                   /\ OldOneStripped
                   /\ StoredHandlers' \subseteq clientSockets'[current'].handlers

C24_ReconnectReplacesAndReattaches ==
    /\ [][C24Step]_vars
    /\ []HandlersAttached

\* the same without the state of the socket that is replaced
C24StepNew ==
    Reconnected => /\ BrandNew
                   /\ StoredHandlers' \subseteq clientSockets'[current'].handlers

C24_ReconnectReattaches ==
    /\ [][C24StepNew]_vars
    /\ []HandlersAttached

\* a socket made by a reconnect carries a handler registered before the drop
W_C24 ==
    /\ current # 0
    /\ clientSockets[current].kind = "reconnect"
    /\ StoredHandlers # {}
    /\ StoredHandlers \subseteq clientSockets[current].handlers

----------------------------------------------------------------------------
(* Claims about a waiter that leaves (SpecRoom) *)

C25Step ==
    \A a \in Conns, m \in MeetingIds :
        /\ (rooms[m] = <<a>> /\ req'.ev = "disconnect" /\ req'.conn = a)
               => /\ rooms'[m] = <<>>
                  /\ \A k \in 1..Len(emits') : emits'[k].to # a
        /\ ( /\ rooms[m] = <<>>
             /\ sock[a] = "closed"
             /\ req'.ev = "joinVideoCallRoom"
             /\ req'.meetingId = m )
               => /\ emits' = <<RoomRoleWaiter(req'.conn)>>
                  /\ rooms'[m] = <<req'.conn>>

\* C25: when the only connection in a room, its waiter, disconnects, the
\* room is empty again; the next connection to join it is told it is the
\* waiter, and nothing is sent to the connection that left
C25_WaiterGoneRoomEmpty == [][C25Step]_vars

\* a has joined as a waiter and has disconnected, nobody has ever been a
\* caller, and b has just joined and been told it is the waiter
W_C25 ==
    \E a \in Conns, b \in Conns :
        /\ a # b
        /\ sock[a] = "closed"
        /\ videoUserName[a] = "Ann"
        /\ \A c \in Conns : otherPersonSocketId[c] = Undefined
        /\ req.ev = "joinVideoCallRoom"
        /\ req.conn = b
        /\ emits = <<RoomRoleWaiter(b)>>

----------------------------------------------------------------------------
(* Claims about a disconnect while a mutation is in flight (SpecNotify) *)

\* the stored message shows what the handler in flight on c saved
Persisted(c) ==
    LET t == task[c]
        m == store[t.id]
    IN  CASE t.ev = "message:react" ->
                 HasReaction(m.reactions, t.userId, t.emoji)
                     <=> (t.action = "added")
          [] t.ev = "message:edit" -> m.isEdited /\ m.text = t.newText
          [] t.ev = "message:delete" -> m.isDeleted /\ m.text = Placeholder

C26Step ==
    ( /\ req'.ev \in {"message:react", "message:edit", "message:delete"}
      /\ req'.stage = "bcast"
      /\ \E d \in MsgConns : sock[d] = "closed" )
        => LET m == store[req'.messageId]
               participants == {m.senderId, m.receiverId}
           IN  /\ store' = store
               /\ Persisted(req'.conn)
               /\ \A p \in participants :
                      EntriesOf(p) # {}
                          => \E k \in 1..Len(emits') :
                                 UserIdOf(emits'[k].to) = p
               /\ \A k \in 1..Len(emits') :
                      /\ sock[emits'[k].to] = "open"
                      /\ emits'[k].ev = MutationEvent(req'.ev)

----------------------------------------------------------------------------
(* Claims about the stored messages (SpecStore) *)

\* the fields of a message the claim lets change, set to those of another
WithMutable(m, other) ==
    [m EXCEPT !.text = other.text, !.reactions = other.reactions,
              !.isEdited = other.isEdited, !.editedAt = other.editedAt,
              !.isDeleted = other.isDeleted, !.deletedAt = other.deletedAt]

\* a step that saved a reaction, an edit or a delete of message i
MutationSaved(i) ==
    /\ req'.ev \in {"message:react", "message:edit", "message:delete"}
    /\ req'.stage = "save"
    /\ req'.messageId = i

C27StepListed ==
    /\ Len(store') >= Len(store)
    /\ \A i \in 1..Len(store) :
           /\ WithMutable(store'[i], store[i]) = store[i]
           /\ store'[i] # store[i] => MutationSaved(i)

C27Step ==
    /\ Len(store') >= Len(store)
    /\ \A i \in 1..Len(store) :
           /\ WithMutable(store'[i], store[i])
                  = [store[i] EXCEPT !.updatedAt = store'[i].updatedAt]
           /\ store'[i] # store[i] => MutationSaved(i)

----------------------------------------------------------------------------
(* Claims about the registry and the connections (SpecSignal) *)

\* C28: every socket id in activeUsers is the id of a connection that is
\* connected now, so a lookup by user id never yields the id of a
\* connection that has disconnected
C28_RegistryOnlyConnected ==
    /\ \A i \in 1..Len(activeUsers) : sock[activeUsers[i].socketId] = "open"
    /\ \A u \in UserIds :
           FindByStrictId(activeUsers, u) # Undefined
               => sock[FindByStrictId(activeUsers, u)] = "open"

\* a registered connection has just disconnected (its offline event went
\* out) while another one stays registered
W_C28 ==
    /\ req.ev = "disconnect"
    /\ sock[req.conn] = "closed"
    /\ emits # <<>>
    /\ activeUsers # <<>>

----------------------------------------------------------------------------
(* Claims about who may edit and delete (SpecEdit) *)

\* the handler went on to save: the request passed the checks
Accepted ==
    /\ req'.ev \in {"message:edit", "message:delete"}
    /\ req'.stage = "find"
    /\ task'[req'.conn] # Idle
    /\ task'[req'.conn] # task[req'.conn]

\* C29: an edit or delete is applied only for a connection registered as
\* the sender of the message, whatever userId the payload names
C29Step ==
    Accepted => /\ Registered(req'.conn)
                /\ UserIdOf(req'.conn) = store[req'.messageId].senderId

C29_OnlySenderConnectionMutates == [][C29Step]_vars

\* what the handlers check: the userId of the payload is the sender's
C29StepPayload == Accepted => req'.userId = store[req'.messageId].senderId

C29_PayloadNamesSender == [][C29StepPayload]_vars

\* C30: a message that has been tombstoned has the placeholder as its text
\* in every later state, whatever edit, react or delete follows
C30_TombstoneKeepsPlaceholder ==
    \A i \in 1..Len(store) : store[i].isDeleted => store[i].text = Placeholder

----------------------------------------------------------------------------
(* Claims about failed requests (SpecChat, SpecNotify) *)

\* the chat:message request of the last step ended with the error event
SendFailed ==
    /\ req.ev = "chat:message"
    /\ \E k \in 1..Len(emits) :
           emits[k] = ErrorTo(req.conn, "Failed to send message")

\* C31: a chat:message request that ends with the error "Failed to send
\* message" to the sender has added no message to the store.
C31_ErrorMeansNothingStored ==
    SendFailed => ~(req.stage = "deliver" /\ req.id \in 1..Len(store))

\* the user:join request of the step ends with the error event
JoinFailed ==
    /\ req'.ev = "user:join"
    /\ \E k \in 1..Len(emits') : emits'[k] = ErrorTo(req'.conn, "Failed to join")

C32Step ==
    JoinFailed
    => /\ activeUsers' = activeUsers
       /\ \A k \in 1..Len(emits') : emits'[k].ev # "user:online"

\* C32: a join request that ends with the error "Failed to join" leaves the
\* presence registry as it was and broadcasts no online event.
C32_FailedJoinLeavesRegistry == [][C32Step]_vars

----------------------------------------------------------------------------
(* Claims about who is sent a message and its mutations (SpecDeliver) *)

\* the events that carry a message or a mutation of one
MessageEvents ==
    {"chat:message", "message:reaction", "message:edited", "message:deleted"}

\* the stored message an event is about
MessageOf(event) ==
    IF event.ev = "chat:message" THEN event.data._id ELSE event.messageId

\* C33: a chat:message event and the reaction, edit and delete events of a
\* message are delivered only to connections registered in presence under
\* the message's senderId or receiverId, never to a third connection.
C33_OnlyParticipantsReceive ==
    \A k \in 1..Len(emits) :
        emits[k].ev \in MessageEvents
        => /\ Registered(emits[k].to)
           /\ UserIdOf(emits[k].to)
                  \in {store[MessageOf(emits[k])].senderId,
                       store[MessageOf(emits[k])].receiverId}

----------------------------------------------------------------------------
(* Claims about leaving a call room (SpecRoom) *)

C34Step ==
    \A c \in Conns, d \in Conns, m \in MeetingIds :
        ( /\ req'.ev = "disconnect"
          /\ req'.conn = c
          /\ d # c
          /\ {c, d} \subseteq Range(rooms[m]) )
        => \E k \in 1..Len(emits') :
               /\ emits'[k].ev = "user-left"
               /\ emits'[k].to = d
               /\ emits'[k].socketId = c

\* C34: when a connection that has joined a call room disconnects, every
\* other member of the room is sent a user-left event naming it.
C34_LeaverAnnounced == [][C34Step]_vars

----------------------------------------------------------------------------
(* Claims about the client after a drop (SpecReconnect, SpecHandlers) *)

\* the server holds a presence entry for the connection of socket i
InPresence(i) ==
    clientSockets[i].state = "connected" /\ clientSockets[i].joined

C35Step ==
    \A i \in 1..Len(clientSockets) :
        (clientSockets[i].kind = "reconnect" /\ SocketConnects(i))
        => InPresence(i)'

\* C35: when a socket made by the reconnection manager after a drop
\* connects, user:join is sent on it, so the client is in the server's
\* presence registry again.
C35_ReconnectRejoins == [][C35Step]_vars

\* disconnect() was called and connect() has not been called since:
\* this.socket is null only from disconnect() on
DisconnectedByCall == current = 0 /\ clientSockets # <<>>

C36Step ==
    DisconnectedByCall
    => \/ ClientConnect
       \/ /\ current' = 0
          /\ Len(clientSockets') = Len(clientSockets)

\* C36: after disconnect() the service holds no socket and creates none
\* until connect() is called again, a reconnect timer that was pending at
\* the time of the call included.
C36_DisconnectIsFinal == [][C36Step]_vars

C37Step ==
    \A i \in 1..Len(clientSockets) :
        ServerDrop(i)
        => /\ reconnectAttempts' = reconnectAttempts + 1
           /\ Len(timers') = Len(timers) + 1

\* C37: one drop by the server of a connection, made by connect() or by a
\* reconnect, adds exactly 1 to reconnectAttempts and schedules exactly one
\* reconnect timer, hence one new connection.
C37_OneDropOneAttempt == [][C37Step]_vars

C38Step ==
    \A e \in ServiceEvents :
        (current # 0 /\ Off(e))
        => clientSockets'[current].listening = clientSockets[current].listening

\* C38: off(event) takes away only the handler on(event) registered; the
\* service's own connect and disconnect listeners stay on the socket, so
\* off("connect") and off("disconnect") leave reconnection working.
C38_OffKeepsServiceListeners == [][C38Step]_vars

\* the handlers registered through on() that an incoming event e invokes
Invoked(e) ==
    IF current = 0 THEN {}
    ELSE {h \in clientSockets[current].handlers : h.event = e}

\* C39: for every event at most one handler registered through on() is
\* attached to this.socket, the one on() stored last, before and after a
\* reconnect.
C39_OneHandlerPerEvent ==
    \A e \in Events :
        /\ Cardinality(Invoked(e)) <= 1
        /\ \A h \in Invoked(e) : h.handler = eventHandlers[e]

----------------------------------------------------------------------------
(* Claims about the caller's ICE candidates (SpecRtc) *)

\* C40: every local ICE candidate the caller's peer connection produces
\* during a call started with startCall, from the offer on, is sent to the
\* callee through the relay with the callId of the call.
C40_EveryCandidateRelayed ==
    \A k \in 1..Len(iceLog) :
        iceLog[k].callId # NoCall => iceLog[k].to \in Callees

====
